---- MODULE Spec2Model ----
(***************************************************************************)
(* Task registry and asynchronous runner of prikit's REST API server       *)
(* (src/prikit/api/api_server.py) together with the facade validation of   *)
(* the format anonymizers (src/prikit/core) and the output path resolver   *)
(* (src/prikit/utils/file_handler.py).                                     *)
(*                                                                         *)
(* Strings are modelled as sequences of tokens: a token is a chunk of the  *)
(* string (a directory name, a separator, a stem, an extension), so that   *)
(* str.startswith, os.path.basename and Path.suffix are computed on the    *)
(* sequence.  Every field assignment of a worker thread is one step: the   *)
(* interpreter may switch threads between any two of them.                 *)
(***************************************************************************)
EXTENDS Integers, Sequences, FiniteSets, TLC

\* ---------------------------------------------------------------- bounds
MaxTasks == 1
MaxTicks == 2
MaxFiles == 2
MaxCalls == 2
MaxText == 3

\* ------------------------------------------------------ program constants
SECONDS_PER_HOUR == 3600
KEY_LENGTH == 6
SINGLE_START_PROGRESS == 20
BATCH_LOOP_SHARE == 80
FULL_PROGRESS == 100

DEFAULT_UPLOAD_FOLDER == <<"./uploads">>
DEFAULT_OUTPUT_FOLDER == <<"./anonymized-datas">>

FileTypes == {"excel", "image", "pdf", "word", "ppt"}

SUPPORTED_FILE_TYPES ==
  [ft \in FileTypes |->
     CASE ft = "excel" -> {".xlsx", ".xls"}
       [] ft = "image" -> {".jpg", ".jpeg", ".png", ".bmp", ".tiff", ".tif"}
       [] ft = "pdf"   -> {".pdf"}
       [] ft = "word"  -> {".docx", ".doc"}
       [] ft = "ppt"   -> {".pptx", ".ppt"}]

ANONYMIZATION_METHODS ==
  [ft \in FileTypes |->
     CASE ft = "excel" -> {"fake", "mask", "encrypt"}
       [] ft = "image" -> {"mask", "color", "char"}
       [] ft = "pdf"   -> {"mask", "color", "char"}
       [] ft = "word"  -> {"fake", "mask", "encrypt"}
       [] ft = "ppt"   -> {"mask"}]

\* SUPPORTED_EXTENSIONS / SUPPORTED_METHODS of the five anonymizer classes
SUPPORTED_EXTENSIONS ==
  [ft \in FileTypes |->
     CASE ft = "excel" -> {".xlsx", ".xls"}
       [] ft = "image" -> {".jpg", ".jpeg", ".png", ".bmp", ".tiff", ".tif"}
       [] ft = "pdf"   -> {".pdf"}
       [] ft = "word"  -> {".docx", ".doc"}
       [] ft = "ppt"   -> {".pptx", ".ppt"}]

SUPPORTED_METHODS ==
  [ft \in FileTypes |->
     CASE ft = "excel" -> {"fake", "mask", "encrypt"}
       [] ft = "image" -> {"mask", "color", "char"}
       [] ft = "pdf"   -> {"mask", "color", "char"}
       [] ft = "word"  -> {"fake", "mask", "encrypt"}
       [] ft = "ppt"   -> {"mask"}]

METHOD_SUFFIXES ==
  [m \in {"mask", "color", "char", "fake", "encrypt"} |->
     IF m = "encrypt" THEN "encrypted" ELSE m]

\* ------------------------------------------------------------ string model
ExtTokens == {".xlsx", ".xls", ".jpg", ".jpeg", ".png", ".bmp", ".tiff", ".tif",
              ".pdf", ".docx", ".doc", ".pptx", ".ppt", ".txt", ".DOCX"}

Digits == {"0", "1", "2", "3", "4", "5", "6", "7", "8", "9"}

\* the tokens that stand for a uuid4 string, in order of generation
IdNames == <<"uuid1", "uuid2", "uuid3", "uuid4", "uuid5">>

\* the tokens " (1)", " (2)", ... of _ensure_unique_filename
CounterNames == <<" (1)", " (2)", " (3)", " (4)", " (5)", " (6)", " (7)", " (8)",
                  " (9)", " (10)", " (11)", " (12)">>

\* Python's None, where a string is expected
None == <<"<None>">>

\* str.lower()
Lower(tok) ==
  CASE tok = ".DOCX"   -> ".docx"
    [] tok = "ENCRYPT" -> "encrypt"
    [] tok = "WORD"    -> "word"
    [] OTHER           -> tok

\* truth value of an Optional[str]
Truthy(s) == s # None /\ s # <<>>

\* str.startswith(prefix)
StartsWith(s, prefix) ==
  /\ Len(s) >= Len(prefix)
  /\ SubSeq(s, 1, Len(prefix)) = prefix

\* position of the last "/" of a path, 0 when there is none
LastSlash(p) ==
  LET idx == {i \in 1..Len(p) : p[i] = "/"}
  IN IF idx = {} THEN 0 ELSE CHOOSE i \in idx : \A j \in idx : j <= i

\* os.path.basename / Path(p).name
Basename(p) == SubSeq(p, LastSlash(p) + 1, Len(p))

\* Path(p).suffix
Suffix(p) ==
  LET b == Basename(p)
  IN IF Len(b) >= 2 /\ b[Len(b)] \in ExtTokens THEN b[Len(b)] ELSE ""

\* Path(p).stem
Stem(p) ==
  LET b == Basename(p)
  IN IF Suffix(p) = "" THEN b ELSE SubSeq(b, 1, Len(b) - 1)

\* os.path.join(folder, name)
PathJoin(folder, name) == folder \o <<"/">> \o name

\* ------------------------------------------------------------- file system
\* user files present on disk when the server starts
pDoc  == <<"./docs", "/", "a", ".docx">>
pNear == <<"./uploads", "_old", "/", "a", ".docx">>
pTxt  == <<"./docs", "/", "a", ".txt">>
\* a path that names no file
pMiss == <<"./docs", "/", "m", ".docx">>

InitialFiles == {pDoc, pNear, pTxt}

\* ground truth: the file lives in the directory `folder`
InsideFolder(p, folder) == StartsWith(p, folder \o <<"/">>)

\* --------------------------------------------------- output path resolver
\* FileHandler._is_uuid
IsUuid(part) ==
  /\ Len(part) = 1
  /\ \E k \in 1..Len(IdNames) : part[1] = IdNames[k]

\* FileHandler._extract_original_stem: drop a "<uuid>_" prefix
ExtractOriginalStem(stem) ==
  LET idx == {i \in 1..Len(stem) : stem[i] = "_"}
  IN IF idx = {} THEN stem
     ELSE LET first == CHOOSE i \in idx : \A j \in idx : i <= j
          IN IF IsUuid(SubSeq(stem, 1, first - 1))
             THEN SubSeq(stem, first + 1, Len(stem))
             ELSE stem

\* FileHandler._generate_base_filename
GenerateBaseFilename(stem, ext, method, color, char) ==
  LET method_suffix == IF method \in DOMAIN METHOD_SUFFIXES
                       THEN METHOD_SUFFIXES[method] ELSE method
      tail == IF ext = "" THEN <<>> ELSE <<ext>>
  IN IF method = "color" /\ Truthy(color)
     THEN stem \o <<"_anonymous_color_">> \o color \o tail
     ELSE IF method = "char"
     THEN IF Truthy(char) /\ char # <<"*">>
          THEN stem \o <<"_anonymous_char_">> \o char \o tail
          ELSE stem \o <<"_anonymous_char">> \o tail
     ELSE stem \o <<"_anonymous_", method_suffix>> \o tail

\* the candidate "<name> (counter)<ext>" of _ensure_unique_filename
NumberedFilename(base_filename, counter) ==
  LET ext == Suffix(base_filename)
      tail == IF ext = "" THEN <<>> ELSE <<ext>>
  IN Stem(base_filename) \o <<CounterNames[counter]>> \o tail

\* the loop of _ensure_unique_filename: the first numbered candidate, from
\* counter on, that is not on disk
RECURSIVE FirstFreeFilename(_, _, _)
FirstFreeFilename(base_filename, counter, files) ==
  IF \E new_filename \in {NumberedFilename(base_filename, counter)} :
       PathJoin(DEFAULT_OUTPUT_FOLDER, new_filename) \notin files
  THEN NumberedFilename(base_filename, counter)
  ELSE FirstFreeFilename(base_filename, counter + 1, files)

\* FileHandler._ensure_unique_filename, against the files on disk
EnsureUniqueFilename(base_filename, files) ==
  IF PathJoin(DEFAULT_OUTPUT_FOLDER, base_filename) \notin files
  THEN base_filename
  ELSE FirstFreeFilename(base_filename, 1, files)

\* the try block of FileHandler.generate_output_path
GenerateOutputPath(input_path, method, color, char, files) ==
  LET original_stem == ExtractOriginalStem(Stem(input_path))
      original_ext == Suffix(input_path)
  IN CHOOSE output_path \in
       { PathJoin(DEFAULT_OUTPUT_FOLDER, EnsureUniqueFilename(base_filename, files)) :
           base_filename \in {GenerateBaseFilename(original_stem, original_ext,
                                                   method, color, char)} } : TRUE

\* ------------------------------------------------------------------ facade
\* BaseAnonymizer.validate_file: existence, extension (a file on disk is
\* readable)
ValidateFile(file_type, file_path, files) ==
  /\ file_path \in files
  /\ Lower(Suffix(file_path)) \in SUPPORTED_EXTENSIONS[file_type]

\* BaseAnonymizer.validate_method
ValidateMethod(file_type, method) == method \in SUPPORTED_METHODS[file_type]

\* the 6-digit test of WordAnonymizer.anonymize / ExcelAnonymizer.anonymize
IsSixDigits(key) ==
  /\ Len(key) = KEY_LENGTH
  /\ \A i \in 1..Len(key) : key[i] \in Digits

\* the checks that anonymize() makes before any processing, in the order of
\* the code; "ok" or the text of the exception raised
AnonymizePrecheck(file_type, file_path, method, encryption_key, files) ==
  IF ~ValidateFile(file_type, file_path, files)
  THEN "FileValidationError"
  ELSE IF ~ValidateMethod(file_type, method)
  THEN "MethodNotSupportedError"
  ELSE IF file_type \in {"word", "excel"} /\ method = "encrypt"
          /\ ~Truthy(encryption_key)
  THEN "EncryptionKeyError: key required"
  ELSE IF file_type \in {"word", "excel"} /\ method = "encrypt"
          /\ ~IsSixDigits(encryption_key)
  THEN "EncryptionKeyError: key must be 6 digits"
  ELSE "ok"

\* what the redactor does once the checks passed: it writes the output and
\* returns ("ok"), a collaborator or codec raises ("raise"), or the output is
\* no longer on disk when the worker looks for it ("gone")
RedactorOutcomes == {"ok", "raise", "gone"}

\* the colour and character arguments the worker hands to get_output_path
OutputColor(file_type, color) == IF file_type \in {"pdf", "image"} THEN color ELSE None
OutputChar(file_type, char) == IF file_type \in {"pdf", "image"} THEN char ELSE None

\* anonymize(): [raised, error, output_path, files]
Anonymize(file_type, file_path, method, encryption_key, color, char, files, outcome) ==
  LET pre == AnonymizePrecheck(file_type, file_path, method, encryption_key, files)
      out == GenerateOutputPath(file_path, method, OutputColor(file_type, color),
                                OutputChar(file_type, char), files)
  IN IF pre # "ok"
     THEN [raised |-> TRUE, error |-> pre, output_path |-> None, files |-> files]
     ELSE IF outcome = "raise"
     THEN [raised |-> TRUE, error |-> "ProcessingError", output_path |-> None,
           files |-> files]
     ELSE IF outcome = "gone"
     THEN [raised |-> FALSE, error |-> "", output_path |-> out, files |-> files]
     ELSE [raised |-> FALSE, error |-> "", output_path |-> out,
           files |-> files \cup {out}]

\* ---------------------------------------------------------------- requests
\* encryption keys a client may send
GoodKey  == <<"1", "2", "3", "4", "5", "6">>
ShortKey == <<"1", "2", "3", "4", "5">>

\* a list of n existing Word files
BatchOf(n) == [k \in 1..n |-> IF k % 2 = 1 THEN pDoc ELSE pNear]

\* names of uploaded files
fDocx == <<"b", ".docx">>
fTxt  == <<"b", ".txt">>

\* the default colour and character of the optional request parameters
DefaultColor == <<"white">>
DefaultChar == <<"*">>

Req(ep, files, file_type, method, key) ==
  [ep |-> ep, files |-> files, file_type |-> file_type, method |-> method,
   encryption_key |-> key]

\* ------------------------------------------------------------------- state
VARIABLES
  tasks,    \* APIServer.tasks: task id -> AnonymizationTask
  threads,  \* the background threads: task id -> arguments, position, locals
  fs,       \* the files on disk
  now,      \* time.time()
  nextId,   \* number of uuid4 values generated and used so far
  reaper,   \* the thread that runs cleanup_old_tasks
  resp,     \* the last response of a submit endpoint
  snap,     \* the last response of the task status endpoint
  down,     \* the last response of the download endpoint
  call      \* a direct call of the library: its arguments, position and result

vars == <<tasks, threads, fs, now, nextId, reaper, resp, snap, down, call>>

Terminal == {"completed", "failed"}

NoError == "<None>"
NoTime == 0

Msg(tag, i, n, txt) == [tag |-> tag, i |-> i, n |-> n, txt |-> txt]

\* NewTask for a constructor that marks the task as already processing
NewTaskProcessing(start_time) ==
  [status |-> "processing", progress |-> 0, message |-> Msg("", 0, 0, <<>>),
   input_files |-> <<>>, output_files |-> <<>>, original_filenames |-> <<>>,
   start_time |-> start_time, end_time |-> NoTime, method |-> "",
   file_type |-> "", error |-> NoError]

\* AnonymizationTask.__init__
NewTask(start_time) ==
  [status |-> "pending", progress |-> 0, message |-> Msg("", 0, 0, <<>>),
   input_files |-> <<>>, output_files |-> <<>>, original_filenames |-> <<>>,
   start_time |-> start_time, end_time |-> NoTime, method |-> "",
   file_type |-> "", error |-> NoError]

\* threading.Thread(target=..., args=...) after start()
NewThread(target, file_paths, file_type, method, encryption_key) ==
  [target |-> target, pc |-> "start", file_paths |-> file_paths,
   file_type |-> file_type, method |-> method,
   encryption_key |-> encryption_key, i |-> 0, output_path |-> None,
   error |-> NoError, raised |-> 0, missing |-> 0]

\* a thread that has returned; raised counts the calls of anonymize() that
\* raised in it (each one is logged with logger.error) and missing the calls
\* that returned a path at which the thread then found no file
FinishedThread(target, raised, missing) ==
  [target |-> target, pc |-> "done", file_paths |-> <<>>, file_type |-> "",
   method |-> "", encryption_key |-> None, i |-> 0, output_path |-> None,
   error |-> NoError, raised |-> raised, missing |-> missing]

IdleReaper(result) ==
  [pc |-> "idle", max_age_hours |-> 0, current_time |-> NoTime,
   old_task_ids |-> <<>>, it_used |-> 0, it_pos |-> 0, result |-> result]

NoResponse ==
  [code |-> 0, task_id |-> 0, req |-> Req("", <<>>, "", "", None)]

\* Snapshot listing the download references whatever the status is
SnapshotAlwaysListsOutputs(code, task_id, t) ==
  [code |-> code, task_id |-> task_id, status |-> t.status,
   progress |-> t.progress, message |-> t.message,
   input_files |-> t.input_files,
   original_filenames |-> t.original_filenames,
   output_files_count |-> Len(t.output_files),
   start_time |-> t.start_time, method |-> t.method,
   file_type |-> t.file_type,
   end_time |-> t.end_time,
   duration |-> IF t.end_time # NoTime THEN t.end_time - t.start_time ELSE 0,
   error |-> t.error,
   download_urls |-> [k \in 1..Len(t.output_files) |-> k - 1],
   output_filenames |-> [k \in 1..Len(t.output_files) |->
                           Basename(t.output_files[k])]]

\* the body of the status response, absent keys as None values
Snapshot(code, task_id, t) ==
  [code |-> code, task_id |-> task_id, status |-> t.status,
   progress |-> t.progress, message |-> t.message,
   input_files |-> t.input_files,
   original_filenames |-> t.original_filenames,
   output_files_count |-> Len(t.output_files),
   start_time |-> t.start_time, method |-> t.method,
   file_type |-> t.file_type,
   end_time |-> t.end_time,
   duration |-> IF t.end_time # NoTime THEN t.end_time - t.start_time ELSE 0,
   error |-> t.error,
   download_urls |-> IF t.status = "completed" /\ t.output_files # <<>>
                     THEN [k \in 1..Len(t.output_files) |-> k - 1] ELSE <<>>,
   output_filenames |-> IF t.status = "completed" /\ t.output_files # <<>>
                        THEN [k \in 1..Len(t.output_files) |->
                                Basename(t.output_files[k])]
                        ELSE <<>>]

NoSnapshot(code, task_id) ==
  Snapshot(code, task_id, [NewTask(NoTime) EXCEPT !.status = ""])

\* a response of the download endpoint: the status code, and the file sent
\* (None when no file is sent)
DownloadResponse(code, task_id, file_index, file) ==
  [code |-> code, task_id |-> task_id, file_index |-> file_index, file |-> file]

NoDownload == DownloadResponse(0, 0, 0, None)

StartTime == SECONDS_PER_HOUR

\* no direct call of the library is made
NoCall == [fn |-> "none"]

\* the server right after construction: no task, no thread, no response
ServerIdle ==
  /\ tasks = <<>>
  /\ threads = <<>>
  /\ now = StartTime
  /\ nextId = 0
  /\ reaper = IdleReaper("none")
  /\ resp = NoResponse
  /\ snap = NoSnapshot(0, 0)
  /\ down = NoDownload

Init ==
  /\ ServerIdle
  /\ fs = InitialFiles
  /\ call = NoCall

\* --------------------------------------------------------- submit handlers
\* APIServer._validate_file_path
ValidateFilePath(file_path, file_type, files) ==
  /\ file_path # <<>>
  /\ file_path \in files
  /\ Lower(Suffix(file_path)) \in SUPPORTED_FILE_TYPES[file_type]

\* APIServer._validate_uploaded_file
ValidateUploadedFile(filename, file_type) ==
  /\ filename # <<>>
  /\ Lower(Suffix(filename)) \in SUPPORTED_FILE_TYPES[file_type]

\* APIServer._save_uploaded_file: the path the upload is saved under
SavedPath(filename, task_id) ==
  PathJoin(DEFAULT_UPLOAD_FOLDER, <<IdNames[task_id], "_">> \o filename)

\* SelectSeqBy for a handler that keeps every path it is given
SelectSeqByKeepsAll(s, file_type, files, upload) == s

\* order-preserving filter of a sequence
RECURSIVE SelectSeqBy(_, _, _, _)
SelectSeqBy(s, file_type, files, upload) ==
  IF s = <<>> THEN <<>>
  ELSE LET keep == IF upload THEN ValidateUploadedFile(Head(s), file_type)
                   ELSE ValidateFilePath(Head(s), file_type, files)
       IN (IF keep THEN <<Head(s)>> ELSE <<>>)
          \o SelectSeqBy(Tail(s), file_type, files, upload)

Accept(target, input_files, original_filenames, saved, file_type, method) ==
  [code |-> 202, target |-> target, input_files |-> input_files,
   original_filenames |-> original_filenames, saved |-> saved,
   file_type |-> file_type, method |-> method]

Reject(code) ==
  [code |-> code, target |-> "", input_files |-> <<>>,
   original_filenames |-> <<>>, saved |-> {}, file_type |-> "", method |-> ""]

\* APIServer._handle_single_file_anonymize, up to the creation of the task
HandleSingleFileAnonymize(r, files) ==
  LET file_path == r.files[1] IN
  IF r.file_type \notin DOMAIN SUPPORTED_FILE_TYPES THEN Reject(400)
  ELSE IF r.method \notin ANONYMIZATION_METHODS[r.file_type] THEN Reject(400)
  ELSE IF ~ValidateFilePath(file_path, r.file_type, files) THEN Reject(400)
  ELSE IF r.method = "encrypt" /\ ~Truthy(r.encryption_key) THEN Reject(400)
  ELSE Accept("single", <<file_path>>, <<Basename(file_path)>>, {},
              r.file_type, r.method)

\* APIServer._handle_batch_file_anonymize, up to the creation of the task
HandleBatchFileAnonymize(r, files) ==
  LET valid_files == SelectSeqBy(r.files, r.file_type, files, FALSE) IN
  IF Len(r.files) = 0 THEN Reject(400)
  ELSE IF r.file_type \notin DOMAIN SUPPORTED_FILE_TYPES THEN Reject(400)
  ELSE IF r.method \notin ANONYMIZATION_METHODS[r.file_type] THEN Reject(400)
  ELSE IF r.method = "encrypt" /\ ~Truthy(r.encryption_key) THEN Reject(400)
  ELSE IF valid_files = <<>> THEN Reject(400)
  ELSE Accept("batch", valid_files,
              [k \in 1..Len(valid_files) |-> Basename(valid_files[k])], {},
              r.file_type, r.method)

\* APIServer._handle_upload_single_file, up to the creation of the task
HandleUploadSingleFile(r, task_id) ==
  LET filename == r.files[1]
      file_type == Lower(r.file_type)
      method == Lower(r.method)
      file_path == SavedPath(filename, task_id)
  IN
  IF filename = <<>> THEN Reject(400)
  ELSE IF file_type = "" THEN Reject(400)
  ELSE IF method = "" THEN Reject(400)
  ELSE IF file_type \notin DOMAIN SUPPORTED_FILE_TYPES THEN Reject(400)
  ELSE IF method \notin ANONYMIZATION_METHODS[file_type] THEN Reject(400)
  ELSE IF ~ValidateUploadedFile(filename, file_type) THEN Reject(400)
  ELSE IF method = "encrypt" /\ ~Truthy(r.encryption_key) THEN Reject(400)
  ELSE Accept("single", <<file_path>>, <<filename>>, {file_path},
              file_type, method)

\* HandleUploadBatchFiles without the test of the encryption key
HandleUploadBatchFilesNoKeyCheck(r, task_id) ==
  LET file_type == Lower(r.file_type)
      method == Lower(r.method)
  IN
  IF r.files = <<>> \/ \A k \in 1..Len(r.files) : r.files[k] = <<>>
  THEN Reject(400)
  ELSE IF file_type = "" THEN Reject(400)
  ELSE IF method = "" THEN Reject(400)
  ELSE IF file_type \notin DOMAIN SUPPORTED_FILE_TYPES THEN Reject(400)
  ELSE IF method \notin ANONYMIZATION_METHODS[file_type] THEN Reject(400)
  ELSE LET names == SelectSeqBy(r.files, file_type, {}, TRUE)
           valid_files == [k \in 1..Len(names) |-> SavedPath(names[k], task_id)]
       IN IF valid_files = <<>> THEN Reject(400)
          ELSE Accept("batch", valid_files, names,
                      {valid_files[k] : k \in 1..Len(valid_files)},
                      file_type, method)

\* APIServer._handle_upload_batch_files, up to the creation of the task
HandleUploadBatchFiles(r, task_id) ==
  LET file_type == Lower(r.file_type)
      method == Lower(r.method)
  IN
  IF r.files = <<>> \/ \A k \in 1..Len(r.files) : r.files[k] = <<>>
  THEN Reject(400)
  ELSE IF file_type = "" THEN Reject(400)
  ELSE IF method = "" THEN Reject(400)
  ELSE IF file_type \notin DOMAIN SUPPORTED_FILE_TYPES THEN Reject(400)
  ELSE IF method \notin ANONYMIZATION_METHODS[file_type] THEN Reject(400)
  ELSE IF method = "encrypt" /\ ~Truthy(r.encryption_key) THEN Reject(400)
  ELSE LET names == SelectSeqBy(r.files, file_type, {}, TRUE)
           valid_files == [k \in 1..Len(names) |-> SavedPath(names[k], task_id)]
       IN IF valid_files = <<>> THEN Reject(400)
          ELSE Accept("batch", valid_files, names,
                      {valid_files[k] : k \in 1..Len(valid_files)},
                      file_type, method)

HandleSubmit(r, files, task_id) ==
  CASE r.ep = "single"        -> HandleSingleFileAnonymize(r, files)
    [] r.ep = "batch"         -> HandleBatchFileAnonymize(r, files)
    [] r.ep = "upload_single" -> HandleUploadSingleFile(r, task_id)
    [] r.ep = "upload_batch"  -> HandleUploadBatchFiles(r, task_id)

\* dict insertion: self.tasks[task_id] = task
Insert(f, k, v) == [x \in DOMAIN f \cup {k} |-> IF x = k THEN v ELSE f[x]]

\* del self.tasks[task_id]
Remove(f, k) == [x \in DOMAIN f \ {k} |-> f[x]]

\* one of the four submit endpoints answers the request r
Submit(r) ==
  /\ LET task_id == nextId + 1
         h == HandleSubmit(r, fs, task_id)
     IN IF h.code = 202
        THEN /\ nextId < MaxTasks
             /\ tasks' = Insert(tasks, task_id,
                           [NewTask(now) EXCEPT
                              !.input_files = h.input_files,
                              !.original_filenames = h.original_filenames,
                              !.method = h.method,
                              !.file_type = h.file_type])
             /\ threads' = Insert(threads, task_id,
                             NewThread(h.target, h.input_files, h.file_type,
                                       h.method, r.encryption_key))
             /\ fs' = fs \cup h.saved
             /\ nextId' = task_id
             /\ resp' = [code |-> 202, task_id |-> task_id, req |-> r]
        ELSE /\ resp' = [code |-> h.code, task_id |-> 0, req |-> r]
             /\ UNCHANGED <<tasks, threads, fs, nextId>>
  /\ UNCHANGED <<now, reaper, snap, down, call>>

\* ------------------------------------------------------- background worker
Running(t, target, pc) ==
  /\ t \in DOMAIN threads
  /\ threads[t].target = target
  /\ threads[t].pc = pc

\* the thread moves to pc; a thread that returns drops its locals
Goto(t, pc) ==
  threads' = [threads EXCEPT ![t] = IF pc = "done"
                                    THEN FinishedThread(@.target, @.raised, @.missing)
                                    ELSE [@ EXCEPT !.pc = pc]]

\* a statement "task.<field> = value" of the worker of task t, then pc
Assign(t, task, pc) ==
  /\ tasks' = [tasks EXCEPT ![t] = task]
  /\ Goto(t, pc)
  /\ UNCHANGED <<fs, now, nextId, reaper, resp, snap, down, call>>

\* BatchProgress counting the files that remain instead of the files done
BatchProgressRemaining(i, total_files) ==
  ((total_files - i) * BATCH_LOOP_SHARE) \div total_files

\* task.progress = int((i / total_files) * 80)
BatchProgress(i, total_files) == (i * BATCH_LOOP_SHARE) \div total_files

\* SingleStart without the assignment of 'processing'
SingleStartSkipsProcessing(t) ==
  /\ Running(t, "single", "start")
  /\ Assign(t, tasks[t], "s200")

\* _run_single_anonymization, line 198-199: task.status = 'processing'
SingleStart(t) ==
  /\ Running(t, "single", "start")
  /\ IF t \in DOMAIN tasks
     THEN Assign(t, [tasks[t] EXCEPT !.status = "processing"], "s200")
     ELSE /\ Goto(t, "done")
          /\ UNCHANGED <<tasks, fs, now, nextId, reaper, resp, snap, down, call>>

\* line 200: task.progress = 20
SingleProgress(t) ==
  /\ Running(t, "single", "s200")
  /\ Assign(t, [tasks[t] EXCEPT !.progress = SINGLE_START_PROGRESS], "s201")

\* SingleMessage writing the key it was called with into the message
SingleMessageWithKey(t) ==
  /\ Running(t, "single", "s201")
  /\ Assign(t, [tasks[t] EXCEPT !.message =
                  Msg("start", 0, 0, threads[t].encryption_key)],
            "s209")

\* line 201: task.message = start of processing
SingleMessage(t) ==
  /\ Running(t, "single", "s201")
  /\ Assign(t, [tasks[t] EXCEPT !.message =
                  Msg("start", 0, 0, Basename(threads[t].file_paths[1]))],
            "s209")

\* SingleCall with an except clause that does not catch what anonymize()
\* raises: the thread dies with the exception
SingleCallUncaught(t) ==
  /\ Running(t, "single", "s209")
  /\ \E outcome \in RedactorOutcomes :
     \E res \in {Anonymize(threads[t].file_type, threads[t].file_paths[1],
                           threads[t].method, threads[t].encryption_key,
                           DefaultColor, DefaultChar, fs, outcome)} :
          /\ fs' = res.files
          /\ threads' = [threads EXCEPT ![t] =
                           IF res.raised
                           THEN FinishedThread(@.target, @.raised + 1, @.missing)
                           ELSE [@ EXCEPT !.pc = "s236",
                                          !.output_path = res.output_path]]
  /\ UNCHANGED <<tasks, now, nextId, reaper, resp, snap, down, call>>

\* lines 209-233: the call of the anonymizer of the file type
SingleCall(t) ==
  /\ Running(t, "single", "s209")
  /\ \E outcome \in RedactorOutcomes :
     \E res \in {Anonymize(threads[t].file_type, threads[t].file_paths[1],
                           threads[t].method, threads[t].encryption_key,
                           DefaultColor, DefaultChar, fs, outcome)} :
          /\ fs' = res.files
          /\ threads' = [threads EXCEPT ![t] =
                           IF res.raised
                           THEN [@ EXCEPT !.pc = "s248", !.error = res.error,
                                          !.raised = @ + 1]
                           ELSE [@ EXCEPT !.pc = "s236",
                                          !.output_path = res.output_path]]
  /\ UNCHANGED <<tasks, now, nextId, reaper, resp, snap, down, call>>

\* lines 236-237: output exists -> task.output_files.append(output_path)
SingleCheck(t) ==
  /\ Running(t, "single", "s236")
  /\ IF threads[t].output_path \in fs
     THEN Assign(t, [tasks[t] EXCEPT !.output_files =
                       Append(@, threads[t].output_path)], "s238")
     ELSE /\ threads' = [threads EXCEPT ![t] =
                           [@ EXCEPT !.pc = "s242", !.missing = @ + 1]]
          /\ UNCHANGED <<tasks, fs, now, nextId, reaper, resp, snap, down, call>>

\* line 238: task.status = 'completed'
SingleCompleted(t) ==
  /\ Running(t, "single", "s238")
  /\ Assign(t, [tasks[t] EXCEPT !.status = "completed"], "s239")

\* line 239: task.progress = 100
SingleFullProgress(t) ==
  /\ Running(t, "single", "s239")
  /\ Assign(t, [tasks[t] EXCEPT !.progress = FULL_PROGRESS], "s240")

\* line 240: task.message = done
SingleDoneMessage(t) ==
  /\ Running(t, "single", "s240")
  /\ Assign(t, [tasks[t] EXCEPT !.message = Msg("completed", 0, 0, <<>>)], "s245")

\* line 242: task.status = 'failed' (no output file)
SingleNoOutput(t) ==
  /\ Running(t, "single", "s242")
  /\ Assign(t, [tasks[t] EXCEPT !.status = "failed"], "s243")

\* line 243: task.message = output not generated
SingleNoOutputMessage(t) ==
  /\ Running(t, "single", "s243")
  /\ Assign(t, [tasks[t] EXCEPT !.message = Msg("no output", 0, 0, <<>>)], "s245")

\* line 245: task.end_time = time.time()
SingleEndTime(t) ==
  /\ Running(t, "single", "s245")
  /\ Assign(t, [tasks[t] EXCEPT !.end_time = now], "done")

\* lines 247-250, the except branch: task.status = 'failed'
SingleExceptStatus(t) ==
  /\ Running(t, "single", "s248")
  /\ IF t \in DOMAIN tasks
     THEN Assign(t, [tasks[t] EXCEPT !.status = "failed"], "s251")
     ELSE /\ Goto(t, "done")
          /\ UNCHANGED <<tasks, fs, now, nextId, reaper, resp, snap, down, call>>

\* line 251: task.message = failure with the exception text
SingleExceptMessage(t) ==
  /\ Running(t, "single", "s251")
  /\ Assign(t, [tasks[t] EXCEPT !.message =
                  Msg("failed", 0, 0, <<threads[t].error>>)], "s252")

\* line 252: task.error = str(e)
SingleExceptError(t) ==
  /\ Running(t, "single", "s252")
  /\ Assign(t, [tasks[t] EXCEPT !.error = threads[t].error], "s253")

\* line 253: task.end_time = time.time()
SingleExceptEndTime(t) ==
  /\ Running(t, "single", "s253")
  /\ Assign(t, [tasks[t] EXCEPT !.end_time = now], "done")

\* _run_batch_anonymization, lines 262-263: task.status = 'processing'
BatchStart(t) ==
  /\ Running(t, "batch", "start")
  /\ IF t \in DOMAIN tasks
     THEN Assign(t, [tasks[t] EXCEPT !.status = "processing"], "b264")
     ELSE /\ Goto(t, "done")
          /\ UNCHANGED <<tasks, fs, now, nextId, reaper, resp, snap, down, call>>

\* lines 264-266: task.input_files = file_paths
BatchInputs(t) ==
  /\ Running(t, "batch", "b264")
  /\ Assign(t, [tasks[t] EXCEPT !.input_files = threads[t].file_paths],
            IF Len(threads[t].file_paths) > 0 THEN "b269" ELSE "b306")

\* lines 268-269: the next file of the loop, task.progress = int(i/total*80)
BatchLoopProgress(t) ==
  /\ Running(t, "batch", "b269")
  /\ Assign(t, [tasks[t] EXCEPT !.progress =
                  BatchProgress(threads[t].i, Len(threads[t].file_paths))],
            "b270")

\* line 270: task.message = file i+1 of total
BatchLoopMessage(t) ==
  /\ Running(t, "batch", "b270")
  /\ LET th == threads[t]
     IN Assign(t, [tasks[t] EXCEPT !.message =
                     Msg("processing", th.i + 1, Len(th.file_paths),
                         Basename(th.file_paths[th.i + 1]))], "b273")

\* where the loop goes after file i: the next file or the statements after it
AfterFile(th) == IF th.i + 1 < Len(th.file_paths) THEN "b269" ELSE "b306"

\* lines 273-296 and 301-303: the call of the anonymizer for file i; an
\* exception is logged and the loop continues
BatchCall(t) ==
  /\ Running(t, "batch", "b273")
  /\ \E outcome \in RedactorOutcomes :
     \E res \in {Anonymize(threads[t].file_type,
                           threads[t].file_paths[threads[t].i + 1],
                           threads[t].method, threads[t].encryption_key,
                           DefaultColor, DefaultChar, fs, outcome)} :
          /\ fs' = res.files
          /\ threads' = [threads EXCEPT ![t] =
                           IF res.raised
                           THEN [@ EXCEPT !.pc = AfterFile(threads[t]), !.i = @ + 1,
                                          !.raised = @ + 1]
                           ELSE [@ EXCEPT !.pc = "b298",
                                          !.output_path = res.output_path]]
  /\ UNCHANGED <<tasks, now, nextId, reaper, resp, snap, down, call>>

\* BatchCheck appending the returned path whether or not the file exists
BatchCheckAppendsAlways(t) ==
  /\ Running(t, "batch", "b298")
  /\ LET th == threads[t]
         missed == ~(Truthy(th.output_path) /\ th.output_path \in fs)
     IN /\ tasks' = [tasks EXCEPT ![t].output_files = Append(@, th.output_path)]
        /\ threads' = [threads EXCEPT ![t] =
                         [@ EXCEPT !.pc = AfterFile(th), !.i = th.i + 1,
                                   !.output_path = None,
                                   !.missing = IF missed THEN @ + 1 ELSE @]]
  /\ UNCHANGED <<fs, now, nextId, reaper, resp, snap, down, call>>

\* lines 298-299: output exists -> task.output_files.append(output_path)
BatchCheck(t) ==
  /\ Running(t, "batch", "b298")
  /\ LET th == threads[t]
         appended == IF Truthy(th.output_path) /\ th.output_path \in fs
                     THEN [tasks[t] EXCEPT !.output_files =
                             Append(@, th.output_path)]
                     ELSE tasks[t]
     IN /\ tasks' = [tasks EXCEPT ![t] = appended]
        /\ threads' = [threads EXCEPT ![t] =
                         [@ EXCEPT !.pc = AfterFile(th), !.i = th.i + 1,
                                   !.output_path = None,
                                   !.missing = IF appended = tasks[t]
                                               THEN @ + 1 ELSE @]]
  /\ UNCHANGED <<fs, now, nextId, reaper, resp, snap, down, call>>

\* BatchFinalStatus that reports completed whatever the loop produced
BatchFinalStatusAlwaysCompleted(t) ==
  /\ Running(t, "batch", "b306")
  /\ Assign(t, [tasks[t] EXCEPT !.status = "completed"], "b308")

\* lines 306-307 and 310-311: the final status of the batch
BatchFinalStatus(t) ==
  /\ Running(t, "batch", "b306")
  /\ IF tasks[t].output_files # <<>>
     THEN Assign(t, [tasks[t] EXCEPT !.status = "completed"], "b308")
     ELSE Assign(t, [tasks[t] EXCEPT !.status = "failed"], "b312")

\* line 308: task.progress = 100
BatchFullProgress(t) ==
  /\ Running(t, "batch", "b308")
  /\ Assign(t, [tasks[t] EXCEPT !.progress = FULL_PROGRESS], "b309")

\* line 309: task.message = batch done, successes/total
BatchDoneMessage(t) ==
  /\ Running(t, "batch", "b309")
  /\ Assign(t, [tasks[t] EXCEPT !.message =
                  Msg("batch completed", Len(tasks[t].output_files),
                      Len(threads[t].file_paths), <<>>)], "b314")

\* line 312: task.message = all files failed
BatchAllFailedMessage(t) ==
  /\ Running(t, "batch", "b312")
  /\ Assign(t, [tasks[t] EXCEPT !.message = Msg("all failed", 0, 0, <<>>)], "b314")

\* line 314: task.end_time = time.time()
BatchEndTime(t) ==
  /\ Running(t, "batch", "b314")
  /\ Assign(t, [tasks[t] EXCEPT !.end_time = now], "done")

\* ---------------------------------------------------------- status endpoint
\* APIServer._handle_get_task_status
HandleGetTaskStatus(task_id) ==
  IF task_id \notin DOMAIN tasks
  THEN NoSnapshot(404, task_id)
  ELSE Snapshot(200, task_id, tasks[task_id])

Poll(task_id) ==
  /\ snap' = HandleGetTaskStatus(task_id)
  /\ UNCHANGED <<tasks, threads, fs, now, nextId, reaper, resp, down, call>>

\* -------------------------------------------------------- download endpoint
\* HandleDownloadFile without the test of the status
HandleDownloadFileAnyStatus(task_id, file_index, files, sent) ==
  IF task_id \notin DOMAIN tasks
  THEN DownloadResponse(404, task_id, file_index, None)
  ELSE LET task == tasks[task_id] IN
       IF file_index < 0 \/ file_index >= Len(task.output_files)
       THEN DownloadResponse(400, task_id, file_index, None)
       ELSE LET output_file == task.output_files[file_index + 1] IN
            IF output_file \notin files
            THEN DownloadResponse(404, task_id, file_index, None)
            ELSE IF sent
            THEN DownloadResponse(200, task_id, file_index, output_file)
            ELSE DownloadResponse(500, task_id, file_index, None)

\* APIServer._handle_download_file; sent is FALSE when send_file raises
HandleDownloadFile(task_id, file_index, files, sent) ==
  IF task_id \notin DOMAIN tasks
  THEN DownloadResponse(404, task_id, file_index, None)
  ELSE LET task == tasks[task_id] IN
       IF task.status # "completed"
       THEN DownloadResponse(400, task_id, file_index, None)
       ELSE IF file_index < 0 \/ file_index >= Len(task.output_files)
       THEN DownloadResponse(400, task_id, file_index, None)
       ELSE LET output_file == task.output_files[file_index + 1] IN
            IF output_file \notin files
            THEN DownloadResponse(404, task_id, file_index, None)
            ELSE IF sent
            THEN DownloadResponse(200, task_id, file_index, output_file)
            ELSE DownloadResponse(500, task_id, file_index, None)

\* GET /api/download/<task_id>/<file_index>
Download(task_id, file_index) ==
  /\ \E sent \in BOOLEAN :
       down' = HandleDownloadFile(task_id, file_index, fs, sent)
  /\ UNCHANGED <<tasks, threads, fs, now, nextId, reaper, resp, snap, call>>

\* a file of the output folder is removed from disk (FileHandler.
\* cleanup_old_files, or the operator of the host)
RemoveOutput ==
  /\ \E file_path \in {f \in fs : InsideFolder(f, DEFAULT_OUTPUT_FOLDER)} :
       fs' = fs \ {file_path}
  /\ UNCHANGED <<tasks, threads, now, nextId, reaper, resp, snap, down, call>>

\* ------------------------------------------------------------------- clock
Tick ==
  /\ now < StartTime + MaxTicks * SECONDS_PER_HOUR
  /\ now' = now + SECONDS_PER_HOUR
  /\ UNCHANGED <<tasks, threads, fs, nextId, reaper, resp, snap, down, call>>

\* ------------------------------------------------------------------ reaper
\* retention windows the host application may ask for, in hours
MaxAges == {0, 1}

\* IsOld measuring the age from the creation of the task
IsOldSinceStart(task, current_time, max_age_hours) ==
  (current_time - task.start_time) > (max_age_hours * SECONDS_PER_HOUR)

\* cleanup_old_tasks, line 759: the test that selects a task
IsOld(task, current_time, max_age_hours) ==
  /\ task.end_time # NoTime
  /\ (current_time - task.end_time) > (max_age_hours * SECONDS_PER_HOUR)

\* cleanup_old_tasks, line 765: the test that selects an input file
IsUploadedFile(file_path) == StartsWith(file_path, DEFAULT_UPLOAD_FOLDER)

\* the keys of the dict in iteration (insertion) order
RECURSIVE KeysInOrder(_)
KeysInOrder(ids) ==
  IF ids = {} THEN <<>>
  ELSE LET m == CHOOSE x \in ids : \A y \in ids : x <= y
       IN <<m>> \o KeysInOrder(ids \ {m})

\* lines 755-758: current_time = time.time(); iter(self.tasks.items())
ReapStart(max_age_hours) ==
  /\ reaper.pc = "idle"
  /\ reaper' = [pc |-> "scan", max_age_hours |-> max_age_hours,
                current_time |-> now, old_task_ids |-> <<>>,
                it_used |-> Cardinality(DOMAIN tasks), it_pos |-> 0,
                result |-> "none"]
  /\ UNCHANGED <<tasks, threads, fs, now, nextId, resp, snap, down, call>>

\* lines 758-760: one step of the dict iterator and the body of the loop; the
\* iterator raises RuntimeError when the dict changed size since it was made
ReapScan ==
  /\ reaper.pc = "scan"
  /\ IF Cardinality(DOMAIN tasks) # reaper.it_used
     THEN reaper' = IdleReaper("RuntimeError")
     ELSE IF reaper.it_pos < reaper.it_used
     THEN LET task_id == KeysInOrder(DOMAIN tasks)[reaper.it_pos + 1]
          IN reaper' = [reaper EXCEPT
                          !.it_pos = @ + 1,
                          !.old_task_ids =
                             IF IsOld(tasks[task_id], reaper.current_time,
                                      reaper.max_age_hours)
                             THEN Append(@, task_id) ELSE @]
     ELSE IF reaper.old_task_ids = <<>>
     THEN reaper' = IdleReaper("ok")
     ELSE reaper' = [reaper EXCEPT !.pc = "delete"]
  /\ UNCHANGED <<tasks, threads, fs, now, nextId, resp, snap, down, call>>

\* lines 762-773: remove the uploaded inputs of the next old task and the task
ReapDelete ==
  /\ reaper.pc = "delete"
  /\ LET task_id == Head(reaper.old_task_ids)
         inputs == tasks[task_id].input_files
         removed == {inputs[k] : k \in {j \in 1..Len(inputs) :
                                          IsUploadedFile(inputs[j])}}
     IN /\ fs' = fs \ removed
        /\ tasks' = Remove(tasks, task_id)
        /\ reaper' = IF Tail(reaper.old_task_ids) = <<>>
                     THEN IdleReaper("ok")
                     ELSE [reaper EXCEPT !.old_task_ids = Tail(@)]
  /\ UNCHANGED <<threads, now, nextId, resp, snap, down, call>>

\* ----------------------------------------------------------- specification
Requests ==
  { Req("single", <<pDoc>>, "word", "mask", None),
    Req("single", <<pDoc>>, "word", "encrypt", None),
    Req("single", <<pDoc>>, "word", "encrypt", ShortKey),
    Req("single", <<pDoc>>, "word", "encrypt", GoodKey),
    Req("single", <<pMiss>>, "word", "mask", None),
    Req("single", <<pTxt>>, "word", "mask", None),
    Req("single", <<pDoc>>, "ppt", "encrypt", GoodKey),
    Req("batch", <<pDoc, pMiss>>, "word", "mask", None),
    Req("batch", <<pMiss>>, "word", "mask", None),
    Req("batch", <<pDoc>>, "word", "encrypt", None),
    Req("batch", <<pDoc>>, "word", "encrypt", ShortKey),
    Req("upload_single", <<fDocx>>, "word", "mask", None),
    Req("upload_single", <<fDocx>>, "WORD", "ENCRYPT", None),
    Req("upload_single", <<fTxt>>, "word", "mask", None),
    Req("upload_batch", <<fDocx, fTxt>>, "word", "mask", None),
    Req("upload_batch", <<fDocx>>, "word", "encrypt", <<>>),
    Req("upload_batch", <<fTxt>>, "word", "mask", None) }

TaskIds == 1..MaxTasks

SingleWorker(t) ==
  \/ SingleStart(t) \/ SingleProgress(t) \/ SingleMessage(t) \/ SingleCall(t)
  \/ SingleCheck(t) \/ SingleCompleted(t) \/ SingleFullProgress(t)
  \/ SingleDoneMessage(t) \/ SingleNoOutput(t) \/ SingleNoOutputMessage(t)
  \/ SingleEndTime(t) \/ SingleExceptStatus(t) \/ SingleExceptMessage(t)
  \/ SingleExceptError(t) \/ SingleExceptEndTime(t)

BatchWorker(t) ==
  \/ BatchStart(t) \/ BatchInputs(t) \/ BatchLoopProgress(t)
  \/ BatchLoopMessage(t) \/ BatchCall(t) \/ BatchCheck(t)
  \/ BatchFinalStatus(t) \/ BatchFullProgress(t) \/ BatchDoneMessage(t)
  \/ BatchAllFailedMessage(t) \/ BatchEndTime(t)

Worker(t) == SingleWorker(t) \/ BatchWorker(t)

\* the requests whose tasks the lifecycle is followed for
LifeRequests ==
  { Req("single", <<pDoc>>, "word", "mask", None),
    Req("single", <<pDoc>>, "word", "encrypt", ShortKey),
    Req("single", <<pMiss>>, "word", "mask", None),
    Req("upload_single", <<fDocx>>, "word", "mask", None),
    Req("upload_batch", <<fDocx, fTxt>>, "word", "mask", None) }
  \cup { Req("batch", BatchOf(n), "word", "mask", None) : n \in 1..MaxFiles }

\* the requests sent while the reaper runs
ReapRequests ==
  { Req("single", <<pNear>>, "word", "mask", None),
    Req("upload_single", <<fDocx>>, "word", "mask", None) }

\* the requests sent while a client polls
PollRequests ==
  { Req("single", <<pDoc>>, "word", "mask", None),
    Req("single", <<pDoc>>, "word", "encrypt", ShortKey),
    Req("batch", <<pDoc, pNear>>, "word", "mask", None),
    Req("batch", <<pMiss>>, "word", "mask", None) }

\* clients submit and the workers run
Next ==
  \/ \E r \in LifeRequests : Submit(r)
  \/ \E t \in TaskIds : Worker(t)

Spec == Init /\ [][Next]_vars

\* the requests whose tasks are followed to their end
FairRequests ==
  { Req("single", <<pDoc>>, "word", "mask", None),
    Req("single", <<pDoc>>, "word", "encrypt", ShortKey),
    Req("upload_single", <<fDocx>>, "word", "mask", None) }
  \cup { Req("batch", BatchOf(n), "word", "mask", None) : n \in 1..MaxFiles }

NextFair ==
  \/ \E r \in FairRequests : Submit(r)
  \/ \E t \in TaskIds : Worker(t)

\* every started thread keeps being scheduled
FairSpec ==
  Init /\ [][NextFair]_vars /\ \A t \in TaskIds : WF_vars(Worker(t))

\* clients send every kind of request, valid or not
NextSubmit ==
  \/ \E r \in Requests : Submit(r)
  \/ \E t \in TaskIds : Worker(t)

SpecSubmit == Init /\ [][NextSubmit]_vars

\* ... and a client polls the status endpoint
NextPoll ==
  \/ \E r \in PollRequests : Submit(r)
  \/ \E t \in TaskIds : Worker(t)
  \/ \E t \in TaskIds : Poll(t)
  \/ Tick

SpecPoll == Init /\ [][NextPoll]_vars

\* ... and the host application runs cleanup_old_tasks on a thread of its own
NextReap ==
  \/ \E r \in ReapRequests : Submit(r)
  \/ \E t \in TaskIds : SingleWorker(t)
  \/ Tick
  \/ \E h \in MaxAges : ReapStart(h)
  \/ ReapScan
  \/ ReapDelete

SpecReap == Init /\ [][NextReap]_vars

\* the requests sent while a client reads the status of its tasks
StatusRequests ==
  { Req("single", <<pDoc>>, "word", "mask", None),
    Req("batch", <<pDoc, pNear>>, "word", "mask", None) }

\* clients submit, the workers run and a client polls
NextStatus ==
  \/ \E r \in StatusRequests : Submit(r)
  \/ \E t \in TaskIds : Worker(t)
  \/ \E t \in TaskIds : Poll(t)

SpecStatus == Init /\ [][NextStatus]_vars

\* the file indexes a client may ask for: one below and one above the indexes
\* of a batch of two files
FileIndexes == {0 - 1, 0, 1, 2}

\* the task whose outputs the client asks for, before and after its creation
DownloadIds == {1}

\* clients submit, the workers run, a client downloads outputs and output
\* files are removed from disk
NextDownload ==
  \/ \E r \in StatusRequests : Submit(r)
  \/ \E t \in TaskIds : Worker(t)
  \/ \E t \in DownloadIds : \E file_index \in FileIndexes : Download(t, file_index)
  \/ RemoveOutput

SpecDownload == Init /\ [][NextDownload]_vars

\* batches by path with valid and invalid paths: three valid ones (one of
\* them twice) around a missing one, an unsupported one before a valid one, and
\* no valid one
MixedBatchRequests ==
  { Req("batch", <<pDoc, pMiss, pNear, pDoc>>, "word", "mask", None),
    Req("batch", <<pTxt, pDoc>>, "word", "mask", None),
    Req("batch", <<pMiss, pTxt>>, "word", "mask", None) }

NextMixedBatch ==
  \/ \E r \in MixedBatchRequests : Submit(r)
  \/ \E t \in TaskIds : BatchWorker(t)

\* every started batch thread keeps being scheduled
FairBatchSpec ==
  Init /\ [][NextMixedBatch]_vars /\ \A t \in TaskIds : WF_vars(BatchWorker(t))

\* encrypt requests with a key, by path and by upload, next to a mask request
KeyRequests ==
  { Req("single", <<pDoc>>, "word", "encrypt", GoodKey),
    Req("single", <<pDoc>>, "word", "encrypt", ShortKey),
    Req("single", <<pMiss>>, "word", "encrypt", GoodKey),
    Req("batch", <<pDoc, pNear>>, "word", "encrypt", GoodKey),
    Req("upload_single", <<fDocx>>, "word", "encrypt", GoodKey),
    Req("upload_batch", <<fDocx>>, "word", "encrypt", ShortKey),
    Req("single", <<pDoc>>, "word", "mask", None) }

\* clients submit with keys, the workers run and a client polls
NextKey ==
  \/ \E r \in KeyRequests : Submit(r)
  \/ \E t \in TaskIds : Worker(t)
  \/ \E t \in TaskIds : Poll(t)

SpecKey == Init /\ [][NextKey]_vars

\* single and batch requests whose files all succeed, partly succeed or all
\* fail
OutputRequests ==
  { Req("single", <<pDoc>>, "word", "mask", None),
    Req("single", <<pMiss>>, "word", "mask", None),
    Req("batch", <<pMiss>>, "word", "mask", None) }
  \cup { Req("batch", BatchOf(n), "word", "mask", None) : n \in 1..MaxFiles }
  \cup { Req("batch", Append(BatchOf(n), pMiss), "word", "mask", None) :
           n \in 1..(MaxFiles - 1) }

\* a client submits requests until one is accepted, the worker of that task
\* runs, and the client polls the task and downloads from it
NextOutputs ==
  \/ \E r \in OutputRequests : nextId = 0 /\ Submit(r)
  \/ \E t \in TaskIds : Worker(t)
  \/ \E t \in DownloadIds : Poll(t)
  \/ \E t \in DownloadIds : \E file_index \in FileIndexes : Download(t, file_index)

SpecOutputs == Init /\ [][NextOutputs]_vars

\* ----------------------------------------------------------- library calls
\* the server state, which a direct call of the library leaves alone
server == <<tasks, threads, now, nextId, reaper, resp, snap, down>>

\* the loop of BaseAnonymizer.anonymize_batch over input_paths[i..]: results
\* is a dict keyed by the input path; outcomes[i] is what the redactor does
\* for the i-th path
RECURSIVE AnonymizeBatchLoop(_, _, _, _, _, _, _, _)
AnonymizeBatchLoop(file_type, input_paths, i, method, encryption_key, outcomes, files, results) ==
  IF i > Len(input_paths)
  THEN [results |-> results, files |-> files]
  ELSE LET input_path == input_paths[i]
       IN IF ~ValidateFile(file_type, input_path, files)
          THEN AnonymizeBatchLoop(file_type, input_paths, i + 1, method,
                                  encryption_key, outcomes, files,
                                  Insert(results, input_path, None))
          ELSE LET r == Anonymize(file_type, input_path, method, encryption_key,
                                  None, None, files, outcomes[i])
               IN AnonymizeBatchLoop(file_type, input_paths, i + 1, method,
                                     encryption_key, outcomes, r.files,
                                     Insert(results, input_path,
                                            IF r.raised THEN None
                                            ELSE r.output_path))

\* BaseAnonymizer.anonymize_batch: [raised, error, results, files]; the
\* argument is [is_list, items], a list of paths or something else
AnonymizeBatch(file_type, input_paths, method, encryption_key, outcomes, files) ==
  IF ~input_paths.is_list
  THEN [raised |-> TRUE, error |-> "ValueError: not a list", results |-> <<>>,
        files |-> files]
  ELSE IF input_paths.items = <<>>
  THEN [raised |-> TRUE, error |-> "ValueError: empty list", results |-> <<>>,
        files |-> files]
  ELSE LET r == AnonymizeBatchLoop(file_type, input_paths.items, 1, method,
                                   encryption_key, outcomes, files, <<>>)
       IN [raised |-> FALSE, error |-> "", results |-> r.results,
           files |-> r.files]

\* the paths a caller puts in a batch: existing Word files, a file of
\* another format and a missing file
BatchPaths == {pDoc, pNear, pTxt, pMiss}

\* the arguments of anonymize_batch: lists of up to MaxFiles paths, and a
\* single path given where the list is expected
BatchArguments ==
  { [is_list |-> TRUE, items |-> items] :
      items \in UNION { [1..n -> BatchPaths] : n \in 0..MaxFiles } }
  \cup { [is_list |-> FALSE, items |-> <<pDoc>>] }

\* strategies and keys of a Word batch
BatchMethods ==
  { [method |-> "mask", encryption_key |-> None],
    [method |-> "encrypt", encryption_key |-> GoodKey],
    [method |-> "encrypt", encryption_key |-> ShortKey] }

\* anonymize_batch has not returned yet
NoBatchResult == [raised |-> FALSE, error |-> "", results |-> <<>>, files |-> {}]

\* a caller is about to call WordAnonymizer().anonymize_batch
InitAnonymizeBatch ==
  /\ ServerIdle
  /\ fs = InitialFiles
  /\ \E input_paths \in BatchArguments : \E m \in BatchMethods :
       \E outcomes \in [1..Len(input_paths.items) -> {"ok", "raise"}] :
         call = [fn |-> "anonymize_batch", pc |-> "called",
                 file_type |-> "word", input_paths |-> input_paths,
                 method |-> m.method, encryption_key |-> m.encryption_key,
                 outcomes |-> outcomes, files |-> InitialFiles,
                 result |-> NoBatchResult]

\* the call runs and returns or raises
AnonymizeBatchCall ==
  /\ call.fn = "anonymize_batch"
  /\ call.pc = "called"
  /\ \E r \in {AnonymizeBatch(call.file_type, call.input_paths, call.method,
                              call.encryption_key, call.outcomes, fs)} :
       /\ call' = [call EXCEPT !.pc = "returned", !.result = r]
       /\ fs' = r.files
  /\ UNCHANGED server

SpecAnonymizeBatch == InitAnonymizeBatch /\ [][AnonymizeBatchCall]_vars

\* one file of each document type, next to pTxt
TypedFile(file_type) ==
  <<"./docs", "/", "a",
    CASE file_type = "excel" -> ".xlsx"
      [] file_type = "image" -> ".png"
      [] file_type = "pdf"   -> ".pdf"
      [] file_type = "word"  -> ".docx"
      [] file_type = "ppt"   -> ".pptx">>

LibraryFiles == {TypedFile(file_type) : file_type \in FileTypes} \cup {pTxt}

\* the strategies a caller may name: the five of the library and an unknown one
CallerMethods == {"mask", "color", "char", "fake", "encrypt", "rot13"}

\* the keys a caller may give: none, the empty string, 5 digits, 6 digits, and
\* 6 characters that are not all digits
EmptyKey == <<>>
LetterKey == <<"1", "2", "3", "4", "5", "x">>
CallerKeys == {None, EmptyKey, ShortKey, GoodKey, LetterKey}

\* the key checks without the test of the 6 digits
ValidateEncryptionKeyPresentOnly(file_type, method, encryption_key) ==
  IF file_type \in {"word", "excel"} /\ method = "encrypt"
     /\ ~Truthy(encryption_key)
  THEN "EncryptionKeyError: key required"
  ELSE "ok"

\* the key checks of WordAnonymizer.anonymize and ExcelAnonymizer.anonymize
\* (the other anonymizers have none): the exception raised, or "ok"
ValidateEncryptionKey(file_type, method, encryption_key) ==
  IF file_type \in {"word", "excel"} /\ method = "encrypt"
  THEN IF ~Truthy(encryption_key)
       THEN "EncryptionKeyError: key required"
       ELSE IF ~IsSixDigits(encryption_key)
       THEN "EncryptionKeyError: key must be 6 digits"
       ELSE "ok"
  ELSE "ok"

\* a caller is about to call anonymize(input_path, method=..., encryption_key=
\* ...) on the anonymizer of file_type; ops lists what the call has done to the
\* file system and to its collaborators so far
InitAnonymize ==
  /\ ServerIdle
  /\ fs = LibraryFiles
  /\ \E file_type \in FileTypes :
       \E input_path \in {TypedFile(file_type), pMiss, pTxt} :
         \E method \in CallerMethods : \E encryption_key \in CallerKeys :
           \E outcome \in {"ok", "raise"} :
             call = [fn |-> "anonymize", pc |-> "validate_file",
                     file_type |-> file_type, input_path |-> input_path,
                     method |-> method, encryption_key |-> encryption_key,
                     outcome |-> outcome, ops |-> <<>>, error |-> "",
                     output_path |-> None]

\* the call is at position pc
AnonymizeAt(pc) == call.fn = "anonymize" /\ call.pc = pc

\* the call raises error
AnonymizeRaise(error) == [call EXCEPT !.pc = "raised", !.error = error]

\* validate_file, first statement of anonymize: os.path.exists, the
\* extension, then open and read of one byte
AnonymizeValidateFile ==
  /\ AnonymizeAt("validate_file")
  /\ LET exists == call.input_path \in fs
         supported == Lower(Suffix(call.input_path))
                        \in SUPPORTED_EXTENSIONS[call.file_type]
         ops == call.ops \o <<"os.path.exists">>
                  \o (IF exists /\ supported THEN <<"open">> ELSE <<>>)
     IN call' = IF ValidateFile(call.file_type, call.input_path, fs)
                THEN [call EXCEPT !.pc = "validate_method", !.ops = ops]
                ELSE [AnonymizeRaise("FileValidationError") EXCEPT !.ops = ops]
  /\ UNCHANGED <<fs, server>>

\* validate_method, second statement of anonymize
AnonymizeValidateMethod ==
  /\ AnonymizeAt("validate_method")
  /\ call' = IF ValidateMethod(call.file_type, call.method)
             THEN [call EXCEPT !.pc = "validate_key"]
             ELSE AnonymizeRaise("MethodNotSupportedError")
  /\ UNCHANGED <<fs, server>>

\* the key checks
AnonymizeValidateKey ==
  /\ AnonymizeAt("validate_key")
  /\ \E checked \in {ValidateEncryptionKey(call.file_type, call.method,
                                           call.encryption_key)} :
       call' = IF checked = "ok"
               THEN [call EXCEPT !.pc = "get_output_path"]
               ELSE AnonymizeRaise(checked)
  /\ UNCHANGED <<fs, server>>

\* output_path = self.get_output_path(...); the caller gave no colour and no
\* character, so color is 'white' and char is None for PDF and image
AnonymizeGetOutputPath ==
  /\ AnonymizeAt("get_output_path")
  /\ call' = [call EXCEPT
       !.pc = "process",
       !.ops = @ \o <<"get_output_path">>,
       !.output_path =
          GenerateOutputPath(call.input_path, call.method,
                             OutputColor(call.file_type, DefaultColor),
                             OutputChar(call.file_type, None), fs)]
  /\ UNCHANGED <<fs, server>>

\* the try block: the operators are built (Word, Excel, PPT), the redactor
\* runs and writes the output, or raises and the exception is raised again
AnonymizeProcess ==
  /\ AnonymizeAt("process")
  /\ LET ops == call.ops \o (IF call.file_type \in {"word", "excel", "ppt"}
                             THEN <<"_get_operators">> ELSE <<>>)
     IN IF call.outcome = "raise"
        THEN /\ call' = [AnonymizeRaise("ProcessingError") EXCEPT !.ops = ops]
             /\ fs' = fs
        ELSE /\ call' = [call EXCEPT !.pc = "returned",
                                     !.ops = ops \o <<"write">>]
             /\ fs' = fs \cup {call.output_path}
  /\ UNCHANGED server

NextAnonymize ==
  \/ AnonymizeValidateFile
  \/ AnonymizeValidateMethod
  \/ AnonymizeValidateKey
  \/ AnonymizeGetOutputPath
  \/ AnonymizeProcess

SpecAnonymize == InitAnonymize /\ [][NextAnonymize]_vars

\* a file whose name is so long that the output name made from it exceeds
\* the longest name the file system accepts
LongName == "<name of 245 characters>"
pLong == <<"./docs", "/", LongName, ".docx">>

\* an uploaded copy of a.docx, saved under "<uuid>_a.docx"
pUploaded == PathJoin(DEFAULT_UPLOAD_FOLDER, <<IdNames[1], "_", "a", ".docx">>)

\* Path.exists() of _ensure_unique_filename raises OSError (file name too
\* long) instead of answering
ExistsRaises(filename) == \E i \in 1..Len(filename) : filename[i] = LongName

\* the tokens that stand for uuid.uuid4().hex[:8]
HexNames == {"hex1", "hex2"}

\* the base file name that generate_output_path computes for an input
OutputBaseFilename(input_path, method, color, char) ==
  GenerateBaseFilename(ExtractOriginalStem(Stem(input_path)), Suffix(input_path),
                       method, color, char)

\* the except clause of generate_output_path: anonymous_<hex><suffix>
DefaultOutputPath(input_path, hex) ==
  PathJoin(DEFAULT_OUTPUT_FOLDER,
           <<"anonymous_", hex>>
             \o (IF Suffix(input_path) = "" THEN <<>> ELSE <<Suffix(input_path)>>))

\* FileHandler.generate_output_path with its except clause
GenerateOutputPathOrDefault(input_path, method, color, char, files, hex) ==
  IF ExistsRaises(OutputBaseFilename(input_path, method, color, char))
  THEN DefaultOutputPath(input_path, hex)
  ELSE GenerateOutputPath(input_path, method, color, char, files)

\* the inputs of the resolver: a user file, its uploaded copy and a file with
\* a long name
ResolverInputs == {pDoc, pUploaded, pLong}

\* the strategies the resolver is called with
ResolverMethods == {"mask", "encrypt"}

\* names that may be in the output folder before the first call: the output
\* name of a.docx under mask, its first MaxFiles numbered variants, and a
\* default name
ExistingOutputs ==
  LET base_filename == OutputBaseFilename(pDoc, "mask", None, None)
  IN { PathJoin(DEFAULT_OUTPUT_FOLDER, name) :
         name \in {base_filename}
                    \cup {NumberedFilename(base_filename, n) : n \in 1..MaxFiles} }
     \cup {DefaultOutputPath(pDoc, "hex1")}

\* a caller is about to call generate_output_path(input_path, method); log
\* lists the calls made and the outputs written, with the files on disk before
InitResolver ==
  /\ ServerIdle
  /\ fs \in { InitialFiles \cup existing : existing \in SUBSET ExistingOutputs }
  /\ \E input_path \in ResolverInputs : \E method \in ResolverMethods :
       call = [fn |-> "generate_output_path", input_path |-> input_path,
               method |-> method, log |-> <<>>]

\* the calls of the resolver in the log
ResolverCalls == {i \in 1..Len(call.log) : call.log[i].op = "generate_output_path"}

\* generate_output_path(input_path, method) is called and returns
ResolverCall ==
  /\ call.fn = "generate_output_path"
  /\ Cardinality(ResolverCalls) < MaxCalls
  /\ \E hex \in HexNames :
       call' = [call EXCEPT !.log = Append(@,
                  [op |-> "generate_output_path",
                   path |-> GenerateOutputPathOrDefault(call.input_path,
                              call.method, None, None, fs, hex),
                   files |-> fs])]
  /\ UNCHANGED <<fs, server>>

\* the caller writes its output to the path the last call returned
ResolverWrite ==
  /\ call.fn = "generate_output_path"
  /\ call.log # <<>>
  /\ call.log[Len(call.log)].op = "generate_output_path"
  /\ fs' = fs \cup {call.log[Len(call.log)].path}
  /\ call' = [call EXCEPT !.log = Append(@,
                [op |-> "write", path |-> call.log[Len(call.log)].path,
                 files |-> fs])]
  /\ UNCHANGED server

NextResolver == ResolverCall \/ ResolverWrite

SpecResolver == InitResolver /\ [][NextResolver]_vars

\* ---------------------------------------------------------------- operators
\* the characters of the detected substrings
TextChars == {"a", "b", "*"}

\* the substrings handed to an operator: up to MaxText characters
Texts == UNION { [1..n -> TextChars] : n \in 0..MaxText }

\* the keep counts of _get_mask_operators (1 to 4), 0 and one beyond MaxText
KeepCounts == 0..(MaxText + 1)

\* '*' * n
Stars(n) == [k \in 1..n |-> "*"]

\* _mask_text that masks from the second kept character on
MaskTextKeepsOneLess(text, keep_chars) ==
  IF text = <<>> \/ Len(text) <= keep_chars
  THEN text
  ELSE SubSeq(text, 1, keep_chars - 1) \o Stars(Len(text) - keep_chars + 1)

\* WordAnonymizer._mask_text (ExcelAnonymizer._mask_text and
\* PPTAnonymizer._mask_text do the same on a string)
MaskText(text, keep_chars) ==
  IF text = <<>> \/ Len(text) <= keep_chars
  THEN text
  ELSE SubSeq(text, 1, keep_chars) \o Stars(Len(text) - keep_chars)

\* a mask operator is about to be applied to a substring
InitMaskText ==
  /\ ServerIdle
  /\ fs = InitialFiles
  /\ \E text \in Texts : \E keep_chars \in KeepCounts :
       call = [fn |-> "_mask_text", pc |-> "called", text |-> text,
               keep_chars |-> keep_chars, result |-> <<>>]

\* _mask_text(text, keep_chars) returns
MaskTextCall ==
  /\ call.fn = "_mask_text"
  /\ call.pc = "called"
  /\ call' = [call EXCEPT !.pc = "returned",
                          !.result = MaskText(call.text, call.keep_chars)]
  /\ UNCHANGED <<fs, server>>

SpecMaskText == InitMaskText /\ [][MaskTextCall]_vars

\* the block size of _encrypt_text
BLOCK_SIZE == 16

\* a character that str.encode() refuses (a lone surrogate)
Unencodable == "<surrogate>"

\* the salts of the two _encrypt_text
Salt(file_type) ==
  IF file_type = "word" THEN "word_anonymizer_salt" ELSE "excel_anonymizer_salt"

\* PBKDF2HMAC(SHA256, length 32, salt, 100000 iterations).derive(key.encode()):
\* a value fixed by the salt and the key
DeriveKey(file_type, key) == [kdf |-> "PBKDF2", salt |-> Salt(file_type), key |-> key]

\* the padding of _encrypt_text: padding_length bytes of value padding_length
PadText(bytes) ==
  LET padding_length == BLOCK_SIZE - (Len(bytes) % BLOCK_SIZE)
  IN bytes \o [k \in 1..padding_length |-> padding_length]

\* AES in ECB mode: every block of BLOCK_SIZE bytes is encrypted by itself
\* under the derived key
EncryptBlocks(derived_key, padded_text) ==
  [b \in 1..(Len(padded_text) \div BLOCK_SIZE) |->
     [aes |-> derived_key,
      block |-> SubSeq(padded_text, (b - 1) * BLOCK_SIZE + 1, b * BLOCK_SIZE)]]

\* text.encode() or key.encode() raises inside the try block
EncryptionFails(text, key) == \E i \in 1..Len(text) : text[i] = Unencodable

\* _encrypt_text with a random initialisation vector for every call
EncryptTextWithNonce(file_type, text, key, nonce) ==
  IF text = <<>> THEN text
  ELSE IF EncryptionFails(text, key) THEN text
  ELSE <<"ENC:", nonce>> \o EncryptBlocks(DeriveKey(file_type, key), PadText(text))

\* WordAnonymizer._encrypt_text / ExcelAnonymizer._encrypt_text; nonce is the
\* number of calls made before, which the code does not use
EncryptText(file_type, text, key, nonce) ==
  IF text = <<>> THEN text
  ELSE IF EncryptionFails(text, key) THEN text
  ELSE <<"ENC:">> \o EncryptBlocks(DeriveKey(file_type, key), PadText(text))

\* the substrings and keys of the encrypt operator
EncryptTexts == {<<>>, <<"a">>, <<"a", "b">>, <<"a", Unencodable>>}
OtherKey == <<"6", "5", "4", "3", "2", "1">>
EncryptKeys == {GoodKey, OtherKey}

\* an anonymizer of Word or Excel is about to apply its encrypt operator; log
\* lists the calls made, with their results
InitEncryptText ==
  /\ ServerIdle
  /\ fs = InitialFiles
  /\ \E file_type \in {"word", "excel"} :
       call = [fn |-> "_encrypt_text", file_type |-> file_type, log |-> <<>>]

\* _encrypt_text(text, key) is called and returns; it has no raise outside
\* its try block
EncryptTextCall ==
  /\ call.fn = "_encrypt_text"
  /\ Len(call.log) < MaxCalls
  /\ \E text \in EncryptTexts : \E key \in EncryptKeys :
       call' = [call EXCEPT !.log = Append(@,
                  [text |-> text, key |-> key, raised |-> FALSE,
                   result |-> EncryptText(call.file_type, text, key, Len(call.log))])]
  /\ UNCHANGED <<fs, server>>

SpecEncryptText == InitEncryptText /\ [][EncryptTextCall]_vars

\* ----------------------------------------------------- parallel batch example
\* max_workers of process_batch_parallel when the caller gives none
DEFAULT_MAX_WORKERS == 4

\* what process_single_file does for a file: it returns a success record
\* ("ok"), it returns a failure record because anonymize raised ("failed"), it
\* raises ValueError for an unsupported format ("raised"), or the redactor
\* hangs and it never returns ("stuck")
FileOutcomes == {"ok", "failed", "raised", "stuck"}

\* BatchProcessor.process_batch_parallel is called with n files; futures[i]
\* is the state of the future of file i, yielded the futures that as_completed
\* has handed out
InitParallelBatch ==
  /\ ServerIdle
  /\ fs = InitialFiles
  /\ \E n \in 1..(MaxFiles + 1) : \E max_workers \in {1, DEFAULT_MAX_WORKERS} :
       \E outcomes \in [1..n -> FileOutcomes] :
         /\ Cardinality({i \in 1..n : outcomes[i] = "stuck"}) <= 1
         /\ call = [fn |-> "process_batch_parallel", pc |-> "as_completed",
                    max_workers |-> max_workers, outcomes |-> outcomes,
                    futures |-> [i \in 1..n |-> "pending"],
                    yielded |-> {}, results |-> <<>>]

\* the call is at position pc
ParallelAt(pc) == call.fn = "process_batch_parallel" /\ call.pc = pc

\* a thread of the pool takes the next submitted file
PoolStart(i) ==
  /\ call.fn = "process_batch_parallel"
  /\ i \in DOMAIN call.futures
  /\ call.futures[i] = "pending"
  /\ \A j \in 1..(i - 1) : call.futures[j] # "pending"
  /\ Cardinality({j \in DOMAIN call.futures : call.futures[j] = "running"})
       < call.max_workers
  /\ call' = [call EXCEPT !.futures[i] = "running"]
  /\ UNCHANGED <<fs, server>>

\* process_single_file returns or raises for file i, unless it is stuck
PoolFinish(i) ==
  /\ call.fn = "process_batch_parallel"
  /\ i \in DOMAIN call.futures
  /\ call.futures[i] = "running"
  /\ call.outcomes[i] # "stuck"
  /\ call' = [call EXCEPT !.futures[i] = "done"]
  /\ UNCHANGED <<fs, server>>

\* the record that process_batch_parallel appends for a finished future
ParallelResult(i, outcome) ==
  CASE outcome = "ok"     -> [input |-> i, success |-> TRUE, message |-> "ok"]
    [] outcome = "failed" -> [input |-> i, success |-> FALSE, message |-> "error"]
    [] OTHER              -> [input |-> i, success |-> FALSE,
                              message |-> "timeout or exception"]

\* one round of the for loop: as_completed hands out a finished future,
\* future.result(timeout=300) returns or raises at once, a record is appended
ParallelCollect(i) ==
  /\ ParallelAt("as_completed")
  /\ i \in DOMAIN call.futures
  /\ call.futures[i] = "done"
  /\ i \notin call.yielded
  /\ call' = [call EXCEPT
       !.yielded = @ \cup {i},
       !.results = Append(@, ParallelResult(i, call.outcomes[i]))]
  /\ UNCHANGED <<fs, server>>

\* as_completed has handed out every future: the loop ends
ParallelLoopEnd ==
  /\ ParallelAt("as_completed")
  /\ call.yielded = DOMAIN call.futures
  /\ call' = [call EXCEPT !.pc = "shutdown"]
  /\ UNCHANGED <<fs, server>>

\* the with block ends: executor.shutdown(wait=True), then return results
ParallelReturn ==
  /\ ParallelAt("shutdown")
  /\ \A i \in DOMAIN call.futures : call.futures[i] = "done"
  /\ call' = [call EXCEPT !.pc = "returned"]
  /\ UNCHANGED <<fs, server>>

\* the files of the largest batch
ParallelFiles == 1..(MaxFiles + 1)

NextParallelBatch ==
  \/ \E i \in ParallelFiles : PoolStart(i)
  \/ \E i \in ParallelFiles : PoolFinish(i)
  \/ \E i \in ParallelFiles : ParallelCollect(i)
  \/ ParallelLoopEnd
  \/ ParallelReturn

\* the pool threads and the calling thread keep being scheduled
FairParallelSpec ==
  /\ InitParallelBatch
  /\ [][NextParallelBatch]_vars
  /\ \A i \in ParallelFiles : WF_vars(PoolStart(i)) /\ WF_vars(PoolFinish(i))
  /\ \A i \in ParallelFiles : WF_vars(ParallelCollect(i))
  /\ WF_vars(ParallelLoopEnd)
  /\ WF_vars(ParallelReturn)

\* ---------------------------------------------------------------------- CLI
\* FileHandler.FILE_TYPE_EXTENSIONS, the same table as SUPPORTED_FILE_TYPES
FILE_TYPE_EXTENSIONS == SUPPORTED_FILE_TYPES

\* a second Word file next to a.docx
pDocB == <<"./docs", "/", "b", ".docx">>

\* the files on disk when the CLI runs
CliFiles == InitialFiles \cup {pDocB}

\* handle_word_command, handle_excel_command, handle_pdf_command,
\* handle_image_command, handle_ppt_command: [code, files]
HandleSingleCommand(file_type, input, method, key, files, outcome) ==
  IF input \notin files
  THEN [code |-> 1, files |-> files]
  ELSE IF file_type \in {"word", "excel"} /\ method = "encrypt" /\ ~Truthy(key)
  THEN [code |-> 1, files |-> files]
  ELSE LET result == Anonymize(file_type, input,
                               IF file_type = "ppt" THEN "mask" ELSE method,
                               IF file_type \in {"word", "excel"} THEN key ELSE None,
                               DefaultColor, None, files, outcome)
       IN [code |-> IF result.raised THEN 1 ELSE 0, files |-> result.files]

\* the files that glob finds in input_dir for the extensions of file_type
BatchFound(input_dir, file_type, files) ==
  {f \in files : /\ InsideFolder(f, input_dir)
                 /\ Suffix(f) \in FILE_TYPE_EXTENSIONS[file_type]}

\* the orders in which glob may list the files of S
Orders(S) ==
  {q \in [1..Cardinality(S) -> S] :
     \A i, j \in 1..Cardinality(S) : i # j => q[i] # q[j]}

\* handle_batch_command that reports success whatever the batch returned
HandleBatchCommandIgnoresFailures(input_dir, file_type, method, key, files, found, outcomes) ==
  IF ~\E f \in files : InsideFolder(f, input_dir)
  THEN [code |-> 1, files |-> files]
  ELSE IF found = <<>>
  THEN [code |-> 0, files |-> files]
  ELSE IF file_type \notin {"pdf", "image"} /\ method = "encrypt" /\ ~Truthy(key)
  THEN [code |-> 1, files |-> files]
  ELSE LET batch == AnonymizeBatch(file_type, [is_list |-> TRUE, items |-> found],
                                   method, key, outcomes, files)
       IN [code |-> 0, files |-> batch.files]

\* handle_batch_command, found being the list that glob returned: [code, files]
HandleBatchCommand(input_dir, file_type, method, key, files, found, outcomes) ==
  IF ~\E f \in files : InsideFolder(f, input_dir)
  THEN [code |-> 1, files |-> files]
  ELSE IF found = <<>>
  THEN [code |-> 0, files |-> files]
  ELSE IF file_type \notin {"pdf", "image"} /\ method = "encrypt" /\ ~Truthy(key)
  THEN [code |-> 1, files |-> files]
  ELSE LET batch == AnonymizeBatch(file_type, [is_list |-> TRUE, items |-> found],
                                   method, key, outcomes, files)
           failed == Cardinality({f \in DOMAIN batch.results :
                                    batch.results[f] = None})
       IN [code |-> IF batch.raised THEN 1 ELSE IF failed = 0 THEN 0 ELSE 1,
           files |-> batch.files]

\* main(): the exit code and the files on disk afterwards
Main(c, files) ==
  CASE c.command \in {"none", "help", "version"} -> [code |-> 0, files |-> files]
    [] c.command = "parse error" -> [code |-> 1, files |-> files]
    [] c.command = "batch" ->
         HandleBatchCommand(c.input, c.file_type, c.method, c.key, files,
                            c.found, c.outcomes)
    [] OTHER ->
         HandleSingleCommand(c.command, c.input, c.method, c.key, files,
                             c.outcomes[1])

\* the command lines: no argument, help, version, a line that argparse
\* refuses, a single-file command and a batch command
CommandLine(command, file_type, input, method, key) ==
  [fn |-> "main", pc |-> "called", command |-> command, file_type |-> file_type,
   input |-> input, method |-> method, key |-> key, found |-> <<>>,
   outcomes |-> <<"ok">>, code |-> 0]

CommandLines ==
  { CommandLine(command, "", None, "", None) :
      command \in {"none", "help", "version", "parse error"} }
  \cup { CommandLine(command, command, input, method, key) :
           command \in {"word", "ppt"}, input \in {pDoc, pMiss, pTxt},
           method \in {"mask", "encrypt"}, key \in {None, ShortKey, GoodKey} }
  \cup { CommandLine("batch", file_type, input_dir, method, key) :
           file_type \in {"word", "pdf"}, input_dir \in {<<"./docs">>, <<"./none">>},
           method \in {"mask", "encrypt"}, key \in {None, ShortKey, GoodKey} }

\* the prikit command is about to run
InitCli ==
  /\ ServerIdle
  /\ fs \in {CliFiles, CliFiles \ {pDocB}, CliFiles \ {pDoc, pDocB}}
  /\ call \in CommandLines

\* main() runs and returns the exit code; the directory listing and what the
\* redactor does for each file are the environment's choice
CliRun ==
  /\ call.fn = "main"
  /\ call.pc = "called"
  /\ \E found \in Orders(IF call.command = "batch"
                         THEN BatchFound(call.input, call.file_type, fs)
                         ELSE {call.input}) :
     \E outcomes \in [1..Len(found) -> {"ok", "raise"}] :
     \E c \in {[call EXCEPT !.found = found, !.outcomes = outcomes]} :
     \E r \in {Main(c, fs)} :
       /\ call' = [c EXCEPT !.pc = "returned", !.code = r.code]
       /\ fs' = r.files
  /\ UNCHANGED server

SpecCli == InitCli /\ [][CliRun]_vars

\* ------------------------------------------------------- concurrent runs
\* the inputs of two concurrent runs: a.docx and its uploaded copy, which have
\* the same original stem and extension
ConcurrentInputs == {pDoc, pUploaded}

\* the two runs
Runs == {1, 2}

\* two calls of WordAnonymizer.anonymize, in two threads, have passed their
\* checks and are about to resolve their output paths
InitConcurrent ==
  /\ ServerIdle
  /\ fs \in { InitialFiles \cup {pUploaded} \cup existing :
                existing \in SUBSET ExistingOutputs }
  /\ \E method \in ResolverMethods :
     \E inputs \in [Runs -> ConcurrentInputs] :
       call = [fn |-> "anonymize x2", method |-> method,
               runs |-> [r \in Runs |->
                           [input_path |-> inputs[r], pc |-> "validated",
                            output_path |-> None, overwrote |-> FALSE]]]

\* lines 83-84 of run r: output_path = self.get_output_path(input_path, method)
RunGetOutputPath(r) ==
  /\ call.fn = "anonymize x2"
  /\ call.runs[r].pc = "validated"
  /\ \E hex \in HexNames :
       call' = [call EXCEPT !.runs[r].pc = "resolved",
                            !.runs[r].output_path =
                               GenerateOutputPathOrDefault(call.runs[r].input_path,
                                 call.method, None, None, fs, hex)]
  /\ UNCHANGED <<fs, server>>

\* lines 94-96 and 260 of run r: _anonymize_docx saves the document at
\* output_path, replacing a file that is there
RunSave(r) ==
  /\ call.fn = "anonymize x2"
  /\ call.runs[r].pc = "resolved"
  /\ fs' = fs \cup {call.runs[r].output_path}
  /\ call' = [call EXCEPT !.runs[r].pc = "saved",
                          !.runs[r].overwrote = (call.runs[r].output_path \in fs)]
  /\ UNCHANGED server

NextConcurrent == \E r \in Runs : RunGetOutputPath(r) \/ RunSave(r)

SpecConcurrent == InitConcurrent /\ [][NextConcurrent]_vars

\* ----------------------------------------------------- operator mapping
\* the strategies for which _get_operators has a branch
OperatorMethods == {"fake", "mask", "encrypt"}

\* WordAnonymizer._get_operators and ExcelAnonymizer._get_operators (the same
\* statements): the mapping returned or the exception raised
GetOperators(method, encryption_key) ==
  IF method \in {"fake", "mask"}
  THEN [raised |-> FALSE, error |-> NoError,
        operators |-> [method |-> method, key |-> None]]
  ELSE IF method = "encrypt"
  THEN IF ~Truthy(encryption_key)
       THEN [raised |-> TRUE, error |-> "ValueError: key required",
             operators |-> [method |-> "", key |-> None]]
       ELSE [raised |-> FALSE, error |-> NoError,
             operators |-> [method |-> method, key |-> encryption_key]]
  ELSE [raised |-> TRUE, error |-> "ValueError: unknown method",
        operators |-> [method |-> "", key |-> None]]

\* _get_operators(method, encryption_key) of a Word or Excel anonymizer is
\* about to be called
InitGetOperators ==
  /\ ServerIdle
  /\ fs = InitialFiles
  /\ \E file_type \in {"word", "excel"} :
     \E method \in CallerMethods : \E encryption_key \in CallerKeys :
       call = [fn |-> "_get_operators", pc |-> "called", file_type |-> file_type,
               method |-> method, encryption_key |-> encryption_key,
               result |-> [raised |-> FALSE, error |-> NoError,
                           operators |-> [method |-> "", key |-> None]]]

\* _get_operators returns or raises
GetOperatorsCall ==
  /\ call.fn = "_get_operators"
  /\ call.pc = "called"
  /\ call' = [call EXCEPT !.pc = "returned",
                          !.result = GetOperators(call.method, call.encryption_key)]
  /\ UNCHANGED <<fs, server>>

SpecGetOperators == InitGetOperators /\ [][GetOperatorsCall]_vars

\* ------------------------------------------------------- format redactors
\* what the collaborators do for one unit (a paragraph, a cell, a text frame,
\* a page): find nothing, find one span and replace it, or raise
UnitOutcomes == {"clean", "pii", "raises"}

\* the documents: 1..MaxText units
Documents == UNION { [1..n -> UnitOutcomes] : n \in 1..MaxText }

\* the formats whose redactor catches the exception of one unit:
\* _process_text of Word and PowerPoint, the try block around one cell of Excel
CatchesPerUnit(format) == format \in {"word", "excel", "ppt"}

\* _anonymize_docx, _anonymize_excel, _anonymize_ppt or _anonymize_with_color
\* is about to process a document that it has opened
InitRedact ==
  /\ ServerIdle
  /\ fs = InitialFiles
  /\ \E format \in {"word", "excel", "ppt", "pdf"} : \E units \in Documents :
       call = [fn |-> "redact", pc |-> "loop", format |-> format, units |-> units,
               k |-> 1, content |-> [j \in 1..Len(units) |-> "original"],
               total_redactions |-> 0,
               output_path |-> PathJoin(DEFAULT_OUTPUT_FOLDER, <<"out.", format>>)]

\* one iteration of the loop over the units of the document
RedactUnit ==
  /\ call.fn = "redact"
  /\ call.pc = "loop"
  /\ call.k <= Len(call.units)
  /\ call' =
       CASE call.units[call.k] = "clean" -> [call EXCEPT !.k = @ + 1]
         [] call.units[call.k] = "pii" ->
              [call EXCEPT !.k = @ + 1, !.content[call.k] = "redacted",
                           !.total_redactions = @ + 1]
         [] call.units[call.k] = "raises" ->
              IF CatchesPerUnit(call.format)
              THEN [call EXCEPT !.k = @ + 1]
              ELSE [call EXCEPT !.pc = "raised"]
  /\ UNCHANGED <<fs, server>>

\* after the loop: the document is saved at output_path
RedactSave ==
  /\ call.fn = "redact"
  /\ call.pc = "loop"
  /\ call.k > Len(call.units)
  /\ call' = [call EXCEPT !.pc = "saved"]
  /\ fs' = fs \cup {call.output_path}
  /\ UNCHANGED server

NextRedact == RedactUnit \/ RedactSave

SpecRedact == InitRedact /\ [][NextRedact]_vars

\* ------------------------------------------------------------------ claims

\* C1: the status of a task only moves pending -> processing -> completed or
\* pending -> processing -> failed; a new task is pending; a terminal status
\* never changes.
C1_StatusMonotone ==
  [][\A t \in DOMAIN tasks' :
       IF t \in DOMAIN tasks
       THEN \/ tasks'[t].status = tasks[t].status
            \/ <<tasks[t].status, tasks'[t].status>> \in
                 {<<"pending", "processing">>, <<"processing", "completed">>,
                  <<"processing", "failed">>}
       ELSE tasks'[t].status = "pending"]_vars

C1_Witness ==
  \E t \in DOMAIN tasks :
    /\ tasks[t].status = "completed"
    /\ threads[t].pc = "done"

\* C2 as stated: a task in which a call of the facade raised ends failed.
C2_FacadeErrorMeansFailed ==
  \A t \in DOMAIN tasks :
    (threads[t].raised > 0 /\ tasks[t].status \in Terminal)
      => tasks[t].status = "failed"

\* C2, amended: under fair scheduling of the workers every created task
\* reaches a terminal status; a single-file task whose facade call raised ends
\* failed; a batch task skips a file whose facade call raised and ends failed
\* exactly when no file produced an output.
C2_EventuallyTerminal ==
  /\ \A t \in TaskIds :
       (t \in DOMAIN tasks) ~> (t \in DOMAIN tasks /\ tasks[t].status \in Terminal)
  /\ [](\A t \in DOMAIN tasks :
          tasks[t].status \in Terminal =>
            IF threads[t].target = "single"
            THEN threads[t].raised > 0 => tasks[t].status = "failed"
            ELSE (tasks[t].status = "failed") <=> (tasks[t].output_files = <<>>))

C2_Witness ==
  \E t \in DOMAIN tasks :
    /\ threads[t].target = "batch"
    /\ threads[t].pc = "done"
    /\ threads[t].raised > 0
    /\ tasks[t].status = "completed"

\* C3: in every state end_time is set if and only if the status is completed
\* or failed.
C3_EndTimeIffTerminal ==
  \A t \in DOMAIN tasks :
    (tasks[t].end_time # NoTime) <=> (tasks[t].status \in Terminal)

\* C4: once a poll has returned a terminal status, every later poll of the
\* same task returns the same snapshot.
C4_TerminalSnapshotStable ==
  [][(/\ snap.code = 200
      /\ snap.status \in Terminal
      /\ snap'.code = 200
      /\ snap'.task_id = snap.task_id) => snap' = snap]_vars

\* C5: progress is always in 0..100 and does not decrease while the status is
\* processing.
C5_ProgressMonotone ==
  /\ [](\A t \in DOMAIN tasks : tasks[t].progress \in 0..100)
  /\ [][\A t \in DOMAIN tasks \cap DOMAIN tasks' :
          tasks[t].status = "processing"
            => tasks'[t].progress >= tasks[t].progress]_vars

C5_Witness ==
  \E t \in DOMAIN tasks :
    /\ threads[t].target = "batch"
    /\ tasks[t].status = "processing"
    /\ threads[t].i > 0
    /\ tasks[t].progress > 0

\* C6: no interleaving of a task creation with the scan of cleanup_old_tasks
\* makes the reaper fail.
C6_ReaperNeverFails == reaper.result # "RuntimeError"

C8_OutsideFilesKept ==
  \A f \in InitialFiles :
    ~InsideFolder(f, DEFAULT_UPLOAD_FOLDER) => f \in fs

\* C9: a submit request with method encrypt and no encryption key is answered
\* with 400 and changes neither the registry nor the threads nor the disk.
C9_NoKeyRejected ==
  [][(/\ resp' # resp
      /\ Lower(resp'.req.method) = "encrypt"
      /\ resp'.req.encryption_key \in {None, <<>>})
       => /\ resp'.code = 400
          /\ tasks' = tasks
          /\ threads' = threads
          /\ fs' = fs
          /\ nextId' = nextId]_vars

C9_Witness ==
  /\ resp.code = 400
  /\ resp.req.ep = "upload_batch"
  /\ resp.req.method = "encrypt"
  /\ resp.req.encryption_key = <<>>
  /\ DOMAIN tasks # {}

\* a request that carries a validation error: a strategy the type does not
\* support, no usable file, or method encrypt with a key that is missing or
\* is not exactly 6 digits
RequestInvalid(r) ==
  LET upload == r.ep \in {"upload_single", "upload_batch"}
      file_type == IF upload THEN Lower(r.file_type) ELSE r.file_type
      method == IF upload THEN Lower(r.method) ELSE r.method
      key == r.encryption_key
      usable(f) == /\ upload \/ f \in InitialFiles
                   /\ f # <<>>
                   /\ Lower(Suffix(f)) \in SUPPORTED_FILE_TYPES[file_type]
  IN \/ file_type \notin FileTypes
     \/ method \notin ANONYMIZATION_METHODS[file_type]
     \/ \A k \in 1..Len(r.files) : ~usable(r.files[k])
     \/ /\ method = "encrypt"
        /\ \/ key \in {None, <<>>}
           \/ Len(key) # 6
           \/ \E i \in 1..Len(key) : key[i] \notin Digits

\* C10: a request that carries a validation error is never accepted.
C10_ValidationRejectedSynchronously ==
  resp.code = 202 => ~RequestInvalid(resp.req)

C13_DownloadChecks ==
  [][down' # down =>
       LET task_id == down'.task_id
           file_index == down'.file_index
       IN /\ down'.code \in {200, 400, 404, 500}
          /\ (down'.file # None) <=> (down'.code = 200)
          /\ IF task_id \notin DOMAIN tasks THEN down'.code = 404
             ELSE IF tasks[task_id].status # "completed" THEN down'.code = 400
             ELSE IF file_index < 0 \/ file_index >= Len(tasks[task_id].output_files)
             THEN down'.code = 400
             ELSE IF tasks[task_id].output_files[file_index + 1] \notin fs
             THEN down'.code = 404
             ELSE /\ down'.code \in {200, 500}
                  /\ down'.code = 200 =>
                       down'.file = tasks[task_id].output_files[file_index + 1]]_vars

\* the output of a completed task was removed from disk and a download of it
\* was answered 404
C13_Witness ==
  /\ down.code = 404
  /\ down.task_id \in DOMAIN tasks
  /\ tasks[down.task_id].status = "completed"
  /\ down.file_index = 0
  /\ tasks[down.task_id].output_files[1] \notin fs

\* C14: a batch by path with V >= 1 valid paths among invalid ones is
\* accepted and creates a task whose inputs are the V valid paths in their
\* order, which never change; a batch with no valid path is answered 400 and
\* creates nothing; under fair scheduling the task ends, and when no call
\* raised and no output was missing it ends completed with V outputs.
C14_BatchKeepsValidPaths ==
  /\ [][(resp' # resp /\ resp'.req.ep = "batch") =>
          LET r == resp'.req
              IsValidPath(f) ==
                /\ f \in fs
                /\ Lower(Suffix(f)) \in SUPPORTED_FILE_TYPES[r.file_type]
              valid == SelectSeq(r.files, IsValidPath)
          IN IF valid = <<>>
             THEN resp'.code = 400 /\ tasks' = tasks /\ threads' = threads
             ELSE /\ resp'.code = 202
                  /\ DOMAIN tasks' = DOMAIN tasks \cup {resp'.task_id}
                  /\ tasks'[resp'.task_id].input_files = valid]_vars
  /\ [][\A t \in DOMAIN tasks \cap DOMAIN tasks' :
          tasks'[t].input_files = tasks[t].input_files]_vars
  /\ \A t \in TaskIds :
       (t \in DOMAIN tasks) ~>
         (/\ t \in DOMAIN tasks
          /\ threads[t].pc = "done"
          /\ tasks[t].status \in Terminal
          /\ (threads[t].raised = 0 /\ threads[t].missing = 0) =>
                /\ tasks[t].status = "completed"
                /\ Len(tasks[t].output_files) = Len(tasks[t].input_files))

\* the batch of three valid paths and a missing one has ended completed with
\* three outputs
C14_Witness ==
  \E t \in DOMAIN tasks :
    /\ threads[t].pc = "done"
    /\ tasks[t].status = "completed"
    /\ tasks[t].input_files = <<pDoc, pNear, pDoc>>
    /\ Len(tasks[t].output_files) = 3
    /\ resp.code = 400

\* C15: in every state a task has at most as many outputs as inputs: every
\* input accounts for at most one of an output, a call that raised and an
\* output that was missing, and every entry of the output list is a path.
C15_OutputsAtMostInputs ==
  \A t \in DOMAIN tasks :
    /\ Len(tasks[t].output_files) <= Len(tasks[t].input_files)
    /\ Len(tasks[t].output_files) + threads[t].raised + threads[t].missing
         <= Len(tasks[t].input_files)
    /\ \A k \in 1..Len(tasks[t].output_files) :
         tasks[t].output_files[k] # None

\* a batch has ended with an output for one file and none for another whose
\* output was missing
C15_Witness ==
  \E t \in DOMAIN tasks :
    /\ threads[t].target = "batch"
    /\ threads[t].pc = "done"
    /\ threads[t].missing > 0
    /\ tasks[t].output_files # <<>>
    /\ Len(tasks[t].output_files) < Len(tasks[t].input_files)

\* the positions of a batch whose file is valid and whose processing succeeds:
\* the file passes validate_file, the strategy and the key pass the checks of
\* anonymize, and the redactor does not raise
BatchSuccesses(c) ==
  { i \in 1..Len(c.input_paths.items) :
      /\ AnonymizePrecheck(c.file_type, c.input_paths.items[i], c.method,
                           c.encryption_key, c.files) = "ok"
      /\ c.outcomes[i] = "ok" }

\* C16: anonymize_batch raises exactly when its argument is not a list or is
\* empty; called with a list of N >= 1 paths of which M are valid and process
\* successfully it returns a mapping of size N with exactly M entries that are
\* not None and N - M entries that are None.
C16_BatchResultCounts ==
  (call.fn = "anonymize_batch" /\ call.pc = "returned") =>
    LET N == Len(call.input_paths.items)
        M == Cardinality(BatchSuccesses(call))
        results == call.result.results
    IN /\ call.result.raised <=> (~call.input_paths.is_list \/ N = 0)
       /\ ~call.result.raised =>
            /\ Cardinality(DOMAIN results) = N
            /\ Cardinality({p \in DOMAIN results : results[p] # None}) = M
            /\ Cardinality({p \in DOMAIN results : results[p] = None}) = N - M

\* a batch with a missing file and a valid file returned one None entry and
\* one output path
C16_Witness ==
  /\ call.fn = "anonymize_batch"
  /\ call.pc = "returned"
  /\ call.input_paths.items = <<pMiss, pDoc>>
  /\ ~call.result.raised
  /\ call.result.results[pMiss] = None
  /\ call.result.results[pDoc] # None
  /\ call.result.results[pDoc] \in fs

\* C17: for every document type and every strategy the type does not support,
\* anonymize raises MethodNotSupportedError before touching the file system:
\* no existence or readability check of the input, no resolution of the output
\* path and no write happens, whether the input file exists or not.
C17_UnsupportedMethodBeforeFilesystem ==
  (call.fn = "anonymize" /\ ~ValidateMethod(call.file_type, call.method)) =>
    /\ call.ops = <<>>
    /\ call.pc # "returned"
    /\ call.pc = "raised" => call.error = "MethodNotSupportedError"

\* a call with an unsupported strategy on an existing file of the type raised
\* MethodNotSupportedError
C17_Witness ==
  /\ call.fn = "anonymize"
  /\ ~ValidateMethod(call.file_type, call.method)
  /\ call.input_path = TypedFile(call.file_type)
  /\ call.pc = "raised"
  /\ call.error = "MethodNotSupportedError"

\* the key of the call is absent, empty or not exactly 6 digits
BadKey(encryption_key) == ~Truthy(encryption_key) \/ ~IsSixDigits(encryption_key)

\* the call is an encrypt call of the Word or Excel anonymizer
EncryptCall ==
  /\ call.fn = "anonymize"
  /\ call.file_type \in {"word", "excel"}
  /\ call.method = "encrypt"

\* the call resolved no output path, built no operators and wrote no output
NoProcessing ==
  \A i \in 1..Len(call.ops) :
    call.ops[i] \notin {"get_output_path", "_get_operators", "write"}

\* C18 as stated: every Word or Excel encrypt call with a bad key raises
\* EncryptionKeyError before any processing, and with a valid 6-digit key no
\* EncryptionKeyError is raised.
C18_BadKeyRaises ==
  EncryptCall =>
    IF BadKey(call.encryption_key)
    THEN /\ NoProcessing
         /\ call.pc # "returned"
         /\ call.pc = "raised" =>
              call.error \in {"EncryptionKeyError: key required",
                              "EncryptionKeyError: key must be 6 digits"}
    ELSE call.error \notin {"EncryptionKeyError: key required",
                            "EncryptionKeyError: key must be 6 digits"}

\* C18: a Word or Excel encrypt call on an input file that passes validation,
\* with a key that is absent, empty or not exactly 6 digits, raises
\* EncryptionKeyError before any processing (no output path resolved, no
\* operators built, no output written), and on a file that does not pass
\* validation it raises FileValidationError, also before any processing; with a
\* valid 6-digit key no EncryptionKeyError is raised.
C18_BadKeyOnValidFileRaises ==
  EncryptCall =>
    IF BadKey(call.encryption_key)
    THEN /\ NoProcessing
         /\ call.pc # "returned"
         /\ call.pc = "raised" =>
              IF ValidateFile(call.file_type, call.input_path, LibraryFiles)
              THEN call.error \in {"EncryptionKeyError: key required",
                                   "EncryptionKeyError: key must be 6 digits"}
              ELSE call.error = "FileValidationError"
    ELSE call.error \notin {"EncryptionKeyError: key required",
                            "EncryptionKeyError: key must be 6 digits"}

\* an encrypt call with a 5-digit key on an existing Word file raised
\* EncryptionKeyError, having only validated the input file
C18_Witness ==
  /\ EncryptCall
  /\ call.encryption_key = ShortKey
  /\ call.input_path = TypedFile(call.file_type)
  /\ call.pc = "raised"
  /\ call.error = "EncryptionKeyError: key must be 6 digits"
  /\ call.ops = <<"os.path.exists", "open">>

\* the name the resolver is to return for base_filename when files are on
\* disk: the base name if it is free, otherwise the numbered name with the
\* smallest free number
ExpectedFilename(base_filename, files) ==
  IF PathJoin(DEFAULT_OUTPUT_FOLDER, base_filename) \notin files
  THEN base_filename
  ELSE LET free == {n \in 1..Len(CounterNames) :
                      PathJoin(DEFAULT_OUTPUT_FOLDER,
                               NumberedFilename(base_filename, n)) \notin files}
       IN NumberedFilename(base_filename,
                           CHOOSE n \in free : \A m \in free : n <= m)

\* C19: generate_output_path never returns a path that exists at call time;
\* whatever files are in the output directory it returns the base name if that
\* is free and otherwise the base name with " (n)" before the extension for the
\* smallest free n >= 1.
C19_ResolverReturnsFreeName ==
  call.fn = "generate_output_path" =>
    \A i \in ResolverCalls :
      /\ call.log[i].path \notin call.log[i].files
      /\ call.log[i].path =
           PathJoin(DEFAULT_OUTPUT_FOLDER,
                    ExpectedFilename(OutputBaseFilename(call.input_path,
                                       call.method, None, None),
                                     call.log[i].files))

\* the resolver was called while the base name and " (1)" were taken and " (2)"
\* was free, and returned the name with " (2)"
C19_Witness ==
  /\ call.fn = "generate_output_path"
  /\ \E i \in ResolverCalls :
       LET base_filename == OutputBaseFilename(call.input_path, call.method,
                                               None, None)
       IN /\ PathJoin(DEFAULT_OUTPUT_FOLDER, base_filename) \in call.log[i].files
          /\ PathJoin(DEFAULT_OUTPUT_FOLDER, NumberedFilename(base_filename, 1))
               \in call.log[i].files
          /\ call.log[i].path =
               PathJoin(DEFAULT_OUTPUT_FOLDER, NumberedFilename(base_filename, 2))

\* C20: two calls of the resolver in a row, for the same input path, strategy
\* and parameters, return two distinct paths.
C20_TwoCallsTwoPaths ==
  call.fn = "generate_output_path" =>
    \A i \in ResolverCalls :
      (i + 1) \in ResolverCalls => call.log[i].path # call.log[i + 1].path

\* the resolver was called twice in a row
C20_Witness ==
  /\ call.fn = "generate_output_path"
  /\ \E i \in ResolverCalls : (i + 1) \in ResolverCalls

\* C21: for every string S and keep count K >= 0, _mask_text returns S when
\* len(S) <= K; otherwise the result has the length of S, its first K
\* characters are those of S and every other character is '*'.
C21_MaskKeepsPrefix ==
  (call.fn = "_mask_text" /\ call.pc = "returned") =>
    LET S == call.text
        K == call.keep_chars
        out == call.result
    IN IF Len(S) <= K
       THEN out = S
       ELSE /\ Len(out) = Len(S)
            /\ \A i \in 1..K : out[i] = S[i]
            /\ \A i \in (K + 1)..Len(S) : out[i] = "*"

\* a string longer than its keep count, with a character other than '*'
\* after the kept prefix, was masked
C21_Witness ==
  /\ call.fn = "_mask_text"
  /\ call.pc = "returned"
  /\ call.keep_chars = 1
  /\ Len(call.text) = MaxText
  /\ call.text[2] = "b"
  /\ call.result # call.text

\* calls of _encrypt_text with the same substring and key return the same
\* value, whatever was called before, and no call raises
EncryptDeterministic ==
  /\ \A i, j \in 1..Len(call.log) :
       (call.log[i].text = call.log[j].text /\ call.log[i].key = call.log[j].key)
         => call.log[i].result = call.log[j].result
  /\ \A i \in 1..Len(call.log) : ~call.log[i].raised

ParallelBatchDone ==
  /\ call.pc = "returned"
  /\ \A i \in DOMAIN call.futures :
       /\ Cardinality({k \in 1..Len(call.results) : call.results[k].input = i}) = 1
       /\ call.outcomes[i] = "stuck" =>
            \E k \in 1..Len(call.results) :
              /\ call.results[k].input = i
              /\ ~call.results[k].success
              /\ call.results[k].message = "timeout or exception"

\* C23: process_batch_parallel terminates even when the processing of one
\* file never finishes: it returns with that file recorded once as failed with
\* a timeout message and with exactly one record for every other file.
C23_ParallelBatchTerminates ==
  (call.fn = "process_batch_parallel") ~> ParallelBatchDone

\* a batch with a file that raised and no stuck file has returned one record
\* for every file
C23_Witness ==
  /\ call.fn = "process_batch_parallel"
  /\ ParallelBatchDone
  /\ Len(call.results) >= 2
  /\ \E i \in DOMAIN call.futures : call.outcomes[i] = "raised"

\* the keys that clients send
SentKeys == {r.encryption_key : r \in KeyRequests} \ {None}

\* the string s contains key
ContainsKey(s, key) ==
  \E i \in 1..Len(s) :
    i + Len(key) - 1 <= Len(s) /\ SubSeq(s, i, i + Len(key) - 1) = key

\* one of the strings of the list l contains key
ListContainsKey(l, key) == \E k \in 1..Len(l) : ContainsKey(l[k], key)

\* a field of the task record or of the snapshot x contains key (the numeric
\* fields and the fields with a fixed vocabulary cannot)
HoldsKey(x, key) ==
  \/ ContainsKey(x.message.txt, key)
  \/ ListContainsKey(x.input_files, key)
  \/ ListContainsKey(x.original_filenames, key)
  \/ x.method \notin {"", "mask", "encrypt", "fake", "color", "char"}
  \/ x.file_type \notin {""} \cup FileTypes
  \/ x.error \notin {NoError, "FileValidationError", "MethodNotSupportedError",
                     "EncryptionKeyError: key required",
                     "EncryptionKeyError: key must be 6 digits",
                     "ProcessingError"}

\* C24: the encryption key reaches the worker through the thread arguments
\* only: no field of a task record of the registry and no status snapshot
\* contains a key that a client sent.
C24_KeyNotInTaskRecord ==
  \A key \in SentKeys :
    /\ \A t \in DOMAIN tasks :
         /\ ~HoldsKey(tasks[t], key)
         /\ ~ListContainsKey(tasks[t].output_files, key)
    /\ ~HoldsKey(snap, key)
    /\ ~ListContainsKey(snap.output_filenames, key)

\* an encrypt task submitted with a 6-digit key has completed and its status
\* was read
C24_Witness ==
  /\ snap.code = 200
  /\ snap.method = "encrypt"
  /\ snap.status = "completed"
  /\ resp.req.encryption_key = GoodKey
  /\ snap.task_id \in DOMAIN threads
  /\ threads[snap.task_id].pc = "done"

\* the files of the command whose processing failed: the facade raised for
\* them, in its checks or in the redactor
CliFailedFiles ==
  { i \in 1..Len(call.found) :
      \/ call.outcomes[i] = "raise"
      \/ AnonymizePrecheck(IF call.command = "batch" THEN call.file_type
                           ELSE call.command,
                           call.found[i],
                           IF call.command = "ppt" THEN "mask" ELSE call.method,
                           call.key, fs) # "ok" }

\* C25: the CLI returns 0 or 1; a single-file command returns 1 exactly when
\* the input is missing or the facade raises, and 0 otherwise; the batch
\* command returns 1 whenever at least one file failed and 0 only when no file
\* failed.
C25_ExitCode ==
  (call.fn = "main" /\ call.pc = "returned") =>
    /\ call.code \in {0, 1}
    /\ call.command \in {"word", "ppt"} =>
         (call.code = 1 <=> (call.input \notin fs \/ CliFailedFiles # {}))
    /\ call.command = "batch" =>
         /\ CliFailedFiles # {} => call.code = 1
         /\ call.code = 0 => CliFailedFiles = {}

\* a batch in which one file succeeded and one failed returned 1
C25_Witness ==
  /\ call.fn = "main"
  /\ call.pc = "returned"
  /\ call.command = "batch"
  /\ call.outcomes = <<"ok", "raise">>
  /\ call.code = 1

\* the batch worker of task t is past the progress assignment of an iteration
\* or has left the loop, and has not yet assigned the final status
BatchLoopReported(t) ==
  /\ t \in DOMAIN threads
  /\ t \in DOMAIN tasks
  /\ threads[t].target = "batch"
  /\ threads[t].pc \in {"b270", "b273", "b298", "b306"}

\* C26: in the batch worker over N files, once i files (1 <= i <= N) are
\* completed the progress is floor(i / N * 80) until the final status is
\* assigned, and progress is 100 in no state whose status is still processing.
C26_BatchProgressAfterItem ==
  \A t \in DOMAIN tasks :
    /\ (BatchLoopReported(t) /\ threads[t].i >= 1)
         => tasks[t].progress =
              (threads[t].i * 80) \div Len(threads[t].file_paths)
    /\ tasks[t].progress = 100 => tasks[t].status # "processing"

\* the last file of a batch is completed and the final status is not yet
\* assigned
C26_Witness ==
  \E t \in DOMAIN tasks :
    /\ BatchLoopReported(t)
    /\ threads[t].pc = "b306"
    /\ threads[t].i = Len(threads[t].file_paths)
    /\ tasks[t].output_files # <<>>

\* C27: two concurrent runs on inputs with the same original stem, extension
\* and strategy resolve different output paths in every interleaving, and
\* neither run saves over a file.
C27_ConcurrentRunsDistinctPaths ==
  (call.fn = "anonymize x2") =>
    /\ (\A r \in Runs : call.runs[r].pc # "validated")
         => call.runs[1].output_path # call.runs[2].output_path
    /\ \A r \in Runs : ~call.runs[r].overwrote

\* both runs have saved their outputs, at two different paths
C27_Witness ==
  /\ call.fn = "anonymize x2"
  /\ \A r \in Runs : call.runs[r].pc = "saved"
  /\ call.runs[1].output_path # call.runs[2].output_path
  /\ call.runs[1].input_path # call.runs[2].input_path

\* the exception class of an error text
ErrorClass(error) ==
  CASE error \in {"ValueError: key required", "ValueError: unknown method"}
         -> "ValueError"
    [] OTHER -> error

\* C28: _get_operators fails with MethodNotSupportedError when the strategy is
\* not mask, fake or encrypt, fails with EncryptionKeyError for encrypt when
\* the key is absent or is not 6 digits, and returns a mapping only when both
\* checks pass.
C28_GetOperatorsErrors ==
  (call.fn = "_get_operators" /\ call.pc = "returned") =>
    LET bad_method == call.method \notin OperatorMethods
        bad_key == /\ call.method = "encrypt"
                   /\ (~Truthy(call.encryption_key)
                       \/ ~IsSixDigits(call.encryption_key))
    IN /\ bad_method =>
            /\ call.result.raised
            /\ ErrorClass(call.result.error) = "MethodNotSupportedError"
       /\ bad_key =>
            /\ call.result.raised
            /\ ErrorClass(call.result.error) = "EncryptionKeyError"
       /\ ~call.result.raised => (~bad_method /\ ~bad_key)

\* _get_operators was called for encrypt with a key of 5 digits and returned
C28_Witness ==
  /\ call.fn = "_get_operators"
  /\ call.pc = "returned"
  /\ call.method = "encrypt"
  /\ call.encryption_key = ShortKey

\* the units of the document that the redactor has gone through
UnitsDone == 1..(call.k - 1)

\* C29: in the Word, Excel, PowerPoint and PDF redactors a collaborator
\* failure on one unit does not abort the document: the unit keeps its
\* content and counts for no redaction, the other units are processed and the
\* document is saved.
C29_UnitFailureDoesNotAbort ==
  (call.fn = "redact") =>
    /\ call.pc # "raised"
    /\ \A j \in UnitsDone :
         call.units[j] = "raises" => call.content[j] = "original"
    /\ call.total_redactions =
         Cardinality({j \in UnitsDone : call.units[j] = "pii"})
    /\ call.pc = "saved" =>
         /\ call.k > Len(call.units)
         /\ call.output_path \in fs

\* a document in which the collaborators raised for one unit and found a span
\* in a later one has been saved
C29_Witness ==
  /\ call.fn = "redact"
  /\ call.pc = "saved"
  /\ \E i, j \in 1..Len(call.units) :
       /\ i < j
       /\ call.units[i] = "raises"
       /\ call.units[j] = "pii"
       /\ call.content[j] = "redacted"

\* the files of the batch of task t for which the worker found an output on
\* disk: those whose call did not raise and whose output was there
BatchProduced(t) ==
  Len(tasks[t].input_files) - threads[t].raised - threads[t].missing

\* C30: a completed task has a non-empty output list; a batch task ends
\* completed iff at least one of its files produced an existing output and
\* failed iff none did; every download index listed in the snapshot of a
\* completed task passes the bounds check of the download endpoint.
C30_CompletedHasOutputs ==
  /\ [](\A t \in DOMAIN tasks :
          /\ tasks[t].status = "completed" => tasks[t].output_files # <<>>
          /\ (threads[t].target = "batch" /\ tasks[t].status \in Terminal) =>
               /\ tasks[t].status = "completed" <=> BatchProduced(t) >= 1
               /\ tasks[t].status = "failed" <=> BatchProduced(t) = 0)
  /\ [][(/\ down' # down
         /\ snap.code = 200
         /\ snap.status = "completed"
         /\ snap.task_id = down'.task_id
         /\ \E k \in 1..Len(snap.download_urls) :
              snap.download_urls[k] = down'.file_index)
        => down'.code \in {200, 500}]_vars

\* a batch with a failed file is completed, its snapshot lists index 0 and the
\* download of index 0 sent the output
C30_Witness ==
  /\ 1 \in DOMAIN tasks
  /\ threads[1].target = "batch"
  /\ threads[1].raised > 0
  /\ tasks[1].status = "completed"
  /\ snap.code = 200
  /\ snap.status = "completed"
  /\ snap.download_urls = <<0>>
  /\ down.code = 200
  /\ down.file_index = 0

====
